---------------------------- MODULE Spec2Model ----------------------------
(***************************************************************************)
(* A model of the benchmarking tool: the metrics Collector, the parameter  *)
(* generators, the Runner's endpoint / base-URL selection, makeRequest and *)
(* the fixed-RPS run (control loop, request goroutines, result channel,    *)
(* aggregator goroutine).                                                  *)
(*                                                                         *)
(* The specifications share the variables:                                 *)
(*   SpecCollector  records are ingested into a Collector, results taken   *)
(*   SpecSelect     successive selectEndpoint / selectBaseURL calls        *)
(*   SpecGen        LoadConfig, then evaluations of a parameter definition *)
(*   SpecRequest    successive makeRequest calls, their details collected  *)
(*   SpecConcurrent goroutines calling selection and the Collector at once *)
(*   SpecRuns       Run invoked again on the Runner after it returned      *)
(*   Spec           one Runner.Run from NewRunner on (FairSpec adds the    *)
(*                  scheduler's fairness)                                  *)
(***************************************************************************)
EXTENDS Integers, Sequences, FiniteSets, Bags, TLC

VARIABLES
    allRequests,   \* Collector.allRequests: the stored MetricDetails, in arrival order
    cfg,           \* Runner.cfg: the loaded configuration
    endpointIdx,   \* Runner.endpointIdx
    urlIdx,        \* Runner.urlIdx
    picked,        \* history: the endpoint names selectEndpoint returned, in call order
    pickedUrl,     \* history: the base URLs selectBaseURL returned, in call order
    resultsCh,     \* Runner.resultsCh: the buffered details
    closes,        \* number of close(r.resultsCh) executed
    pc,            \* position of the goroutine that called Run
    err,           \* what Run returned: "none" (not returned), "nil" or an error
    now,           \* time.Since(startTime), in model time units
    tickerC,       \* ticker.C: number of buffered ticks (capacity 1)
    nextTick,      \* elapsed time at which the ticker fires next
    tasks,         \* bag of the live request goroutines' states
    spawned,       \* history: number of request goroutines started
    finished,      \* number of request goroutines that ran wg.Done
    produced,      \* history: bag of the details makeRequest returned
    aggregator,    \* the collector goroutine: "off", "running" or "done"
    requestCount,  \* runFixedRPSMode's local requestCount
    lateSpawn,     \* history: a goroutine was started at elapsed time >= totalDuration
    panic,         \* "none", or the message of the panic that ended the process
    loadErr,       \* what LoadConfig returned: "none" (not called), "nil" or an error
    evalDef,        \* the parameter definition under evaluation
    genOuts,       \* history: what the evaluations of evalDef ended in, in call order
    attempts,      \* history: what the makeRequest calls ended in, in call order
    mu,            \* Runner.mu: 0 when unlocked, else the caller holding it
    mutex,         \* Collector.mutex: 0 when unlocked, else the caller holding it
    callers,       \* the goroutines calling the Runner's selection and the Collector
    reruns,        \* number of times Run was invoked again after it had returned
    engine         \* a ParameterEngine: its registered generators, and (history)
                   \* what the evaluations of them ended in

vars == <<allRequests, cfg, endpointIdx, urlIdx, picked, pickedUrl, resultsCh,
          closes, pc, err, now, tickerC, nextTick, tasks, spawned, finished,
          produced, aggregator, requestCount, lateSpawn, panic, loadErr, evalDef,
          genOuts, attempts, mu, mutex, callers, reruns, engine>>

collectorVars == <<allRequests>>
selectVars == <<endpointIdx, urlIdx, picked, pickedUrl>>
runVars == <<resultsCh, closes, pc, err, now, tickerC, nextTick, tasks, spawned,
             finished, produced, aggregator, requestCount, lateSpawn, panic>>
genVars == <<loadErr, evalDef, genOuts, engine>>
requestVars == <<attempts>>
callerVars == <<mu, mutex, callers, reruns>>

-----------------------------------------------------------------------------
(* Bounds of the model *)

MaxRecords == 3      \* records ingested in SpecCollector
MaxDuration == 2     \* largest request duration, in model time units
MaxCalls == 6        \* selection calls in SpecSelect
ChanCap == 2         \* capacity of resultsCh in the model (make(chan ..., 1000))
Second == 5          \* time.Second, in model time units
IntBits == 3         \* width of Go's int, in bits
MaxDepth == 3        \* reference resolutions nested on a goroutine's stack before it overflows
WeightScale == 2     \* weight units per thousandth
MaxEvals == 2        \* evaluations of the definition in SpecGen
MaxAttempts == 2     \* makeRequest calls in SpecRequest
NumCallers == 3      \* goroutines calling concurrently in SpecConcurrent
MaxReruns == 1       \* invocations of Run after the first in SpecRuns

-----------------------------------------------------------------------------
(* metrics: MetricDetail, Collector, GetResults *)

\* time.Since of a monotonic clock reading: an elapsed time, never negative
Durations == 0..MaxDuration

\* MetricDetail, restricted to the fields GetResults reads.  A response carries its
\* status and no error; a failed attempt carries status 0, IsError and a message.
\* RecordRequest accepts any combination, so a few mixed ones are included.
MetricDetails ==
    [StatusCode : {200, 399, 400}, IsError : {FALSE}, ErrorMsg : {""},
     Duration : Durations]
    \cup [StatusCode : {0}, IsError : {TRUE}, ErrorMsg : {"timeout", ""},
          Duration : Durations]
    \cup [StatusCode : {200}, IsError : {TRUE}, ErrorMsg : {"reset"},
          Duration : Durations]
    \cup [StatusCode : {200, 400}, IsError : {FALSE}, ErrorMsg : {"note"},
          Duration : Durations]

NilResults ==
    [TotalRequests |-> 0, SuccessfulRequests |-> 0, FailedRequests |-> 0,
     TotalDuration |-> 0, AvgDuration |-> 0, MinDuration |-> 0, MaxDuration |-> 0,
     StatusCodesCount |-> (-1 :> 0), ErrorDetails |-> ("<nil>" :> 0)]

\* AggregatedResults with every field at its zero value and both maps made
ZeroResults ==
    [TotalRequests |-> 0, SuccessfulRequests |-> 0, FailedRequests |-> 0,
     TotalDuration |-> 0, AvgDuration |-> 0, MinDuration |-> 0, MaxDuration |-> 0,
     StatusCodesCount |-> <<>>, ErrorDetails |-> <<>>]

MapIncFromZero(m, k) ==
    IF k \in DOMAIN m THEN [m EXCEPT ![k] = @ + 1] ELSE m @@ (k :> 0)

\* m[k]++ on a Go map: a missing key reads as zero
MapInc(m, k) ==
    IF k \in DOMAIN m THEN [m EXCEPT ![k] = @ + 1] ELSE m @@ (k :> 1)

IsFailureOffByOne(r) == r.IsError \/ r.StatusCode > 400

\* the test of GetResults' loop: r.IsError || r.StatusCode >= 400
IsFailure(r) == r.IsError \/ r.StatusCode >= 400

AccumulateNoMax(res, r) ==
    LET failed == IsFailure(r) IN
    [res EXCEPT
        !.TotalRequests = @ + 1,
        !.TotalDuration = @ + r.Duration,
        !.FailedRequests = IF failed THEN @ + 1 ELSE @,
        !.ErrorDetails = IF failed /\ r.ErrorMsg # "" THEN MapInc(@, r.ErrorMsg) ELSE @,
        !.SuccessfulRequests = IF failed THEN @ ELSE @ + 1,
        !.StatusCodesCount = MapInc(@, r.StatusCode),
        !.MinDuration = IF r.Duration < @ THEN r.Duration ELSE @]

AccumulateLatestMax(res, r) ==
    LET failed == IsFailure(r) IN
    [res EXCEPT
        !.TotalRequests = @ + 1,
        !.TotalDuration = @ + r.Duration,
        !.FailedRequests = IF failed THEN @ + 1 ELSE @,
        !.ErrorDetails = IF failed /\ r.ErrorMsg # "" THEN MapInc(@, r.ErrorMsg) ELSE @,
        !.SuccessfulRequests = IF failed THEN @ ELSE @ + 1,
        !.StatusCodesCount = MapInc(@, r.StatusCode),
        !.MinDuration = IF r.Duration < @ THEN r.Duration ELSE @,
        !.MaxDuration = r.Duration]

AccumulateEmptyMessage(res, r) ==
    LET failed == IsFailure(r) IN
    [res EXCEPT
        !.TotalRequests = @ + 1,
        !.TotalDuration = @ + r.Duration,
        !.FailedRequests = IF failed THEN @ + 1 ELSE @,
        !.ErrorDetails = IF failed THEN MapInc(@, r.ErrorMsg) ELSE @,
        !.SuccessfulRequests = IF failed THEN @ ELSE @ + 1,
        !.StatusCodesCount = MapInc(@, r.StatusCode),
        !.MinDuration = IF r.Duration < @ THEN r.Duration ELSE @,
        !.MaxDuration = IF r.Duration > @ THEN r.Duration ELSE @]

\* one iteration of GetResults' loop over c.allRequests
Accumulate(res, r) ==
    LET failed == IsFailure(r) IN
    [res EXCEPT
        !.TotalRequests = @ + 1,
        !.TotalDuration = @ + r.Duration,
        !.FailedRequests = IF failed THEN @ + 1 ELSE @,
        !.ErrorDetails = IF failed /\ r.ErrorMsg # "" THEN MapInc(@, r.ErrorMsg) ELSE @,
        !.SuccessfulRequests = IF failed THEN @ ELSE @ + 1,
        !.StatusCodesCount = MapInc(@, r.StatusCode),
        !.MinDuration = IF r.Duration < @ THEN r.Duration ELSE @,
        !.MaxDuration = IF r.Duration > @ THEN r.Duration ELSE @]

RECURSIVE AccumulateAll(_, _, _)
\* the loop "for _, r := range c.allRequests", from index i on
AccumulateAll(res, all, i) ==
    IF i > Len(all) THEN res
    ELSE AccumulateAll(Accumulate(res, all[i]), all, i + 1)

\* Collector.GetResults.  Durations are int64 nanoseconds in the code; the model's
\* are small and non-negative, where Go's / and \div agree.
GetResults(all) ==
    IF Len(all) = 0 THEN ZeroResults
    ELSE LET res == AccumulateAll([ZeroResults EXCEPT !.MinDuration = all[1].Duration],
                                  all, 1)
         IN IF res.TotalRequests > 0
            THEN [res EXCEPT !.AvgDuration = res.TotalDuration \div res.TotalRequests]
            ELSE [res EXCEPT !.MinDuration = 0]

RecordRequestNoMessage(statusCode, duration, isError, errorMsg) ==
    /\ Len(allRequests) < MaxRecords
    /\ allRequests' = Append(allRequests,
                             [StatusCode |-> statusCode, IsError |-> isError,
                              ErrorMsg |-> "", Duration |-> duration])

\* Collector.RecordRequest: appends the detail built from its arguments
RecordRequest(statusCode, duration, isError, errorMsg) ==
    /\ Len(allRequests) < MaxRecords
    /\ allRequests' = Append(allRequests,
                             [StatusCode |-> statusCode, IsError |-> isError,
                              ErrorMsg |-> errorMsg, Duration |-> duration])

AppendDetailReplacing(detail) ==
    allRequests' = <<detail>>

AppendDetailTwice(detail) ==
    allRequests' = Append(Append(allRequests, detail), detail)

\* Collector.AppendDetail: appends the detail, without taking the mutex
AppendDetail(detail) ==
    allRequests' = Append(allRequests, detail)

-----------------------------------------------------------------------------
(* config: generator definitions, createGeneratorWithConfig, Generate *)

\* Go's int and int64 in two's complement, IntBits wide (64 in the build)
MinInt == -(2 ^ (IntBits - 1))
MaxInt == (2 ^ (IntBits - 1)) - 1
WrapInt(x) == ((x - MinInt) % (2 ^ IntBits)) + MinInt

\* the orders in which a range over a map (as "for name := range r.cfg.Endpoints") can yield the keys: Go
\* leaves the iteration order of a map unspecified, and it may differ from one
\* range statement to the next
Perms(S) ==
    {f \in [1..Cardinality(S) -> S] : \A x \in S : \E i \in DOMAIN f : f[i] = x}

\* the values a generator returns as "any"
IntV(n) == [kind |-> "int", n |-> n]
StrV(s) == [kind |-> "string", s |-> s]
NilV == [kind |-> "nil"]
ListV(items) == [kind |-> "list", items |-> items]
MapV(fields) == [kind |-> "map", fields |-> fields]

\* what a call can end in: a value, a returned error, or a panic of the process
Returned(v) == [out |-> "value", val |-> v]
Failed(msg) == [out |-> "error", msg |-> msg]
Panicked(msg) == [out |-> "panic", msg |-> msg]

Values(outs) == {o.val : o \in {q \in outs : q.out = "value"}}
Errors(outs) == {o.msg : o \in {q \in outs : q.out = "error"}}
Panics(outs) == {o \in outs : o.out = "panic"}

\* rand.Int(rand.Reader, big.NewInt(n)): panics when n <= 0; else a number below n,
\* or the error of reading rand.Reader
RandInt(n) ==
    IF n <= 0 THEN {Panicked("crypto/rand: argument to Int is <= 0")}
    ELSE {Failed("rand.Reader")} \cup {Returned(k) : k \in 0..(n - 1)}

\* A format string is a sequence of tokens: "{}", a verb ("%d", "%s"), "%%", or
\* literal text holding neither '%' nor "{}".
\* strings.ReplaceAll(format, "{}", "%d")
ReplaceBraces(format) ==
    [i \in DOMAIN format |-> IF format[i] = "{}" THEN "%d" ELSE format[i]]

RECURSIVE SprintfInt(_, _, _, _)
\* fmt.Sprintf(format, v) for one int operand, from token i on; used: v is consumed
SprintfInt(format, i, v, used) ==
    IF i > Len(format)
    THEN IF used THEN "" ELSE "%!(EXTRA int=" \o ToString(v) \o ")"
    ELSE IF format[i] = "%d"
    THEN (IF used THEN "%!d(MISSING)" ELSE ToString(v))
         \o SprintfInt(format, i + 1, v, TRUE)
    ELSE IF format[i] = "%s"
    THEN (IF used THEN "%!s(MISSING)" ELSE "%!s(int=" \o ToString(v) \o ")")
         \o SprintfInt(format, i + 1, v, TRUE)
    ELSE IF format[i] = "%%"
    THEN "%" \o SprintfInt(format, i + 1, v, used)
    ELSE format[i] \o SprintfInt(format, i + 1, v, used)

\* fmt.Sprintf(g.Format, value): the placeholder "{}" left as it is
FormatIntUnreplaced(format, v) == SprintfInt(format, 1, v, FALSE)

\* fmt.Sprintf(strings.ReplaceAll(g.Format, "{}", "%d"), value)
FormatInt(format, v) == SprintfInt(ReplaceBraces(format), 1, v, FALSE)

\* A definition (the "any" a YAML node decodes to) is a record of the keys the
\* node holds; "bare" marks a node that is a plain string, "ref" stands for the
\* key $ref.  A nested map or list carries its Go dynamic type: yaml.v2 decodes
\* into "any" as map[interface{}]interface{} and []interface{}.
YamlMap(m) == [goType |-> "map[interface {}]interface {}", m |-> m]
YamlList(items) == [goType |-> "[]interface {}", items |-> items]

\* getIntValue(defMap[key], defaultValue), for values that are ints
GetIntValue(def, key, defaultValue) ==
    IF key \in DOMAIN def THEN def[key] ELSE defaultValue

\* getStringValue(defMap[key], defaultValue), for values that are strings
GetStringValue(def, key, defaultValue) ==
    IF key \in DOMAIN def THEN def[key] ELSE defaultValue

\* the results of building a generator
Built(gen) == [ok |-> TRUE, gen |-> gen]
NotBuilt(msg) == [ok |-> FALSE, msg |-> msg]

\* the weights of a choice definition: read only from a []interface{}
ChoiceWeights(def) ==
    IF "weights" \in DOMAIN def /\ def.weights.goType = "[]interface {}"
    THEN def.weights.items ELSE <<>>

\* the children of a template or object definition under key: read only from a
\* map[interface{}]interface{}
ChildDefs(def, key) ==
    IF key \in DOMAIN def /\ def[key].goType = "map[interface {}]interface {}"
    THEN def[key].m ELSE <<>>

RECURSIVE CreateGeneratorWithConfig(_)
\* ParameterEngine.createGeneratorWithConfig(def, config) with config non-nil, as
\* Config.GetParameterGenerator and Config.createGeneratorFromDef call it: the
\* set of its possible results (which failing child is reported depends on the
\* order of the map range)
CreateGeneratorWithConfig(def) ==
    LET ChildFailures(m, prefix) ==
            UNION {{NotBuilt(prefix \o k \o ": " \o r.msg) :
                       r \in {q \in CreateGeneratorWithConfig(m[k]) : ~q.ok}} :
                   k \in DOMAIN m}
        ChildGens(m) ==
            [k \in DOMAIN m |->
                (CHOOSE r \in CreateGeneratorWithConfig(m[k]) : r.ok).gen]
    IN
    IF "bare" \in DOMAIN def
    THEN {Built([g |-> "Static", Value |-> StrV(def.bare)])}
    ELSE IF "other" \in DOMAIN def
    THEN {NotBuilt("invalid generator definition type: " \o def.other)}
    ELSE IF "ref" \in DOMAIN def
    THEN {Built([g |-> "Reference", Name |-> def.ref])}
    ELSE IF "type" \notin DOMAIN def
    THEN {NotBuilt("generator type not specified")}
    ELSE CASE def.type = "static" ->
                {Built([g |-> "Static",
                        Value |-> IF "value" \in DOMAIN def THEN def.value ELSE NilV])}
           [] def.type = "randomInt" ->
                LET min == GetIntValue(def, "min", 0)
                    max == GetIntValue(def, "max", 100)
                    format == GetStringValue(def, "format", <<>>)
                IN IF format # <<>>
                   THEN {Built([g |-> "FormattedInt", Min |-> min, Max |-> max,
                                Format |-> format])}
                   ELSE {Built([g |-> "RandomInt", Min |-> min, Max |-> max])}
           [] def.type = "formattedInt" ->
                LET min == GetIntValue(def, "min", 0)
                    max == GetIntValue(def, "max", 100)
                    format == GetStringValue(def, "format", <<"{}">>)
                IN IF format = <<>>
                   THEN {NotBuilt("formattedInt generator requires 'format' field")}
                   ELSE {Built([g |-> "FormattedInt", Min |-> min, Max |-> max,
                                Format |-> format])}
           [] def.type = "choice" ->
                IF "values" \notin DOMAIN def
                THEN {NotBuilt("choice generator requires 'values' field")}
                ELSE {Built([g |-> "Choice", Values |-> def.values,
                             Weights |-> ChoiceWeights(def)])}
           [] def.type = "randomString" ->
                {Built([g |-> "RandomString",
                        Length |-> GetIntValue(def, "length", 10),
                        Charset |-> GetStringValue(def, "charset", "alphanumeric")])}
           [] def.type = "template" ->
                LET template == GetStringValue(def, "template", <<>>)
                    params == ChildDefs(def, "parameters")
                    failures == ChildFailures(params,
                                              "failed to create template parameter ")
                IN IF template = <<>>
                   THEN {NotBuilt("template generator requires 'template' field")}
                   ELSE IF failures # {} THEN failures
                   ELSE {Built([g |-> "Template", Template |-> template,
                                Parameters |-> ChildGens(params)])}
           [] def.type = "object" ->
                LET props == ChildDefs(def, "properties")
                    failures == ChildFailures(props,
                                              "failed to create object property ")
                IN IF failures # {} THEN failures
                   ELSE {Built([g |-> "Object", Properties |-> ChildGens(props)])}
           [] def.type = "array" ->
                IF "elementGenerator" \notin DOMAIN def
                THEN {NotBuilt("array generator requires 'elementGenerator' field")}
                ELSE LET elems == CreateGeneratorWithConfig(def.elementGenerator)
                     IN {IF r.ok
                         THEN Built([g |-> "Array",
                                     MinLength |-> GetIntValue(def, "minLength", 1),
                                     MaxLength |-> GetIntValue(def, "maxLength", 5),
                                     ElementGenerator |-> r.gen])
                         ELSE NotBuilt("failed to create array element generator: "
                                       \o r.msg) : r \in elems}
           [] OTHER -> {NotBuilt("unsupported generator type: " \o def.type)}

\* Config.GetParameterGenerator(nameOrDef)
GetParameterGenerator(nameOrDef) == CreateGeneratorWithConfig(nameOrDef)

\* A ParameterGenerator struct is a record of the fields the YAML node set (Type
\* always; a nil pointer, nil slice or nil map, or an empty string, is absent).
\* Config.createGeneratorFromDef(genDef): the defMap built from the struct holds
\* Weights as a []float64 and Parameters and Properties as map[string]any.
StructDefMap(genDef) ==
    [k \in DOMAIN genDef |->
        IF k = "weights" THEN [goType |-> "[]float64", items |-> genDef[k]]
        ELSE IF k \in {"parameters", "properties"}
        THEN [goType |-> "map[string]interface {}", m |-> genDef[k]]
        ELSE genDef[k]]

CreateGeneratorFromDef(genDef) == CreateGeneratorWithConfig(StructDefMap(genDef))

\* getCharset(charsetType)
GetCharset(charsetType) ==
    CASE charsetType = "alpha" ->
            "abcdefghijklmnopqrstuvwxyzABCDEFGHIJKLMNOPQRSTUVWXYZ"
      [] charsetType = "alpha_lower" -> "abcdefghijklmnopqrstuvwxyz"
      [] charsetType = "alpha_upper" -> "ABCDEFGHIJKLMNOPQRSTUVWXYZ"
      [] charsetType = "numeric" -> "0123456789"
      [] charsetType = "hex" -> "0123456789abcdef"
      [] OTHER -> "abcdefghijklmnopqrstuvwxyzABCDEFGHIJKLMNOPQRSTUVWXYZ0123456789"

RECURSIVE SumSeq(_, _)
\* the sum of weights[1..i]
SumSeq(weights, i) == IF i = 0 THEN 0 ELSE SumSeq(weights, i - 1) + weights[i]

\* A weight is a float64 in the code; the model counts it in units of
\* 1 / (1000 * WeightScale), so that weights below 0.001 exist.
\* int64(totalWeight*1000): the conversion truncates toward zero
Int64Thousandths(total) ==
    IF total >= 0 THEN total \div WeightScale ELSE -((-total) \div WeightScale)

\* float64(num.Int64()) / 1000.0, in weight units
TargetOf(num) == num * WeightScale

\* ChoiceGenerator.generateWeightedChoice
GenerateWeightedChoice(values, weights) ==
    LET totalWeight == SumSeq(weights, Len(weights))
        draws == RandInt(Int64Thousandths(totalWeight))
        Walk(num) ==
            LET hits == {i \in DOMAIN weights : TargetOf(num) <= SumSeq(weights, i)}
            IN IF hits = {} THEN values[Len(values)]
               ELSE values[CHOOSE i \in hits : \A j \in hits : i <= j]
    IN IF totalWeight <= 0 THEN {Returned(values[1])}
       ELSE Panics(draws)
            \cup {Failed("failed to generate weighted choice: " \o m) : m \in Errors(draws)}
            \cup {Returned(Walk(num)) : num \in Values(draws)}

\* the property names of the model, in the order fmt prints map keys (sorted)
PropertyNames == <<"p", "q">>

RECURSIVE FormatV(_)
\* fmt.Sprintf("%v", value)
FormatV(value) ==
    LET RECURSIVE JoinV(_, _)
        \* items[i..], each as %v, separated by spaces
        JoinV(items, i) ==
            IF i > Len(items) THEN ""
            ELSE FormatV(items[i]) \o (IF i < Len(items) THEN " " ELSE "")
                 \o JoinV(items, i + 1)
        keys == SelectSeq(PropertyNames, LAMBDA k : k \in DOMAIN value.fields)
        RECURSIVE JoinKV(_)
        JoinKV(i) ==
            IF i > Len(keys) THEN ""
            ELSE keys[i] \o ":" \o FormatV(value.fields[keys[i]])
                 \o (IF i < Len(keys) THEN " " ELSE "") \o JoinKV(i + 1)
    IN CASE value.kind = "int" -> ToString(value.n)
         [] value.kind = "string" -> value.s
         [] value.kind = "nil" -> "<nil>"
         [] value.kind = "list" -> "[" \o JoinV(value.items, 1) \o "]"
         [] value.kind = "map" -> "map[" \o JoinKV(1) \o "]"
         [] value.kind = "chars" ->
                "<" \o ToString(value.len) \o " of " \o value.charset \o ">"

RECURSIVE JoinTokens(_, _)
\* the string a token sequence spells, from token i on
JoinTokens(tokens, i) ==
    IF i > Len(tokens) THEN "" ELSE tokens[i] \o JoinTokens(tokens, i + 1)

RECURSIVE Substitute(_, _, _, _)
\* the loop of TemplateGenerator.Generate over the parameters in the order the
\* map range yields them, from the i-th on: strings.ReplaceAll(result,
\* "{{name}}", fmt.Sprintf("%v", value)).  A template is a sequence of tokens, a
\* placeholder "{{name}}" being one token.
Substitute(result, order, vals, i) ==
    IF i > Len(order) THEN result
    ELSE Substitute([j \in DOMAIN result |->
                        IF result[j] = "{{" \o order[i] \o "}}"
                        THEN FormatV(vals[order[i]]) ELSE result[j]],
                    order, vals, i + 1)

\* the value combinations of a map of generators whose outcomes are outs[k]
ChildValues(outs) ==
    {f \in [DOMAIN outs -> UNION {Values(outs[k]) : k \in DOMAIN outs}] :
        \A k \in DOMAIN outs : f[k] \in Values(outs[k])}

RECURSIVE Generate(_, _, _)
\* Generator.Generate() of each generator type: the set of its possible outcomes.
\* registry is Config.ParameterGenerators; hops counts the references being
\* resolved on the goroutine's stack, which overflows beyond MaxDepth.
Generate(gen, registry, hops) ==
    LET ChildOuts(gens) == [k \in DOMAIN gens |-> Generate(gens[k], registry, hops)]
        ChildPanics(outs) == UNION {Panics(outs[k]) : k \in DOMAIN outs}
        ChildErrors(outs, prefix) ==
            UNION {{Failed(prefix \o k \o ": " \o m) : m \in Errors(outs[k])} :
                   k \in DOMAIN outs}
    IN
    CASE gen.g = "Static" -> {Returned(gen.Value)}
      [] gen.g = "RandomInt" ->
            IF gen.Min >= gen.Max THEN {Returned(IntV(gen.Min))}
            ELSE LET rangeSize == WrapInt(gen.Max - gen.Min + 1)
                     draws == RandInt(rangeSize)
                 IN Panics(draws)
                    \cup {Failed("failed to generate random int: " \o m) :
                             m \in Errors(draws)}
                    \cup {Returned(IntV(WrapInt(gen.Min + num))) : num \in Values(draws)}
      [] gen.g = "FormattedInt" ->
            IF gen.Min >= gen.Max
            THEN {Returned(StrV(FormatInt(gen.Format, gen.Min)))}
            ELSE LET rangeSize == WrapInt(gen.Max - gen.Min + 1)
                     draws == RandInt(rangeSize)
                 IN Panics(draws)
                    \cup {Failed("failed to generate random int: " \o m) :
                             m \in Errors(draws)}
                    \cup {Returned(StrV(FormatInt(gen.Format, WrapInt(gen.Min + num)))) :
                             num \in Values(draws)}
      [] gen.g = "Choice" ->
            IF Len(gen.Values) = 0
            THEN {Failed("no values provided for choice generator")}
            ELSE IF Len(gen.Weights) > 0 /\ Len(gen.Weights) = Len(gen.Values)
            THEN GenerateWeightedChoice(gen.Values, gen.Weights)
            ELSE LET draws == RandInt(Len(gen.Values))
                 IN {Failed("failed to generate choice: " \o m) : m \in Errors(draws)}
                    \cup {Returned(gen.Values[num + 1]) : num \in Values(draws)}
      [] gen.g = "RandomString" ->
            \* make([]byte, g.Length) panics on a negative length; the drawn
            \* characters are not told apart
            IF gen.Length < 0 THEN {Panicked("makeslice: len out of range")}
            ELSE IF gen.Length = 0 THEN {Returned(StrV(""))}
            ELSE {Failed("failed to generate random string: rand.Reader"),
                  Returned([kind |-> "chars", len |-> gen.Length,
                            charset |-> GetCharset(gen.Charset)])}
      [] gen.g = "Template" ->
            LET outs == ChildOuts(gen.Parameters)
            IN IF gen.Template = <<>>
               THEN {Failed("no template provided for template generator")}
               ELSE ChildPanics(outs)
                    \cup ChildErrors(outs, "failed to generate template parameter ")
                    \cup {Returned(StrV(JoinTokens(
                              Substitute(gen.Template, order, vals, 1), 1))) :
                             order \in Perms(DOMAIN outs), vals \in ChildValues(outs)}
      [] gen.g = "Object" ->
            LET outs == ChildOuts(gen.Properties)
            IN ChildPanics(outs)
               \cup ChildErrors(outs, "failed to generate object field ")
               \cup {Returned(MapV(vals)) : vals \in ChildValues(outs)}
      [] gen.g = "Reference" ->
            IF gen.Name \notin DOMAIN registry
            THEN {Failed("referenced generator '" \o gen.Name \o "' not found")}
            ELSE IF hops >= MaxDepth
            THEN {Panicked("stack overflow")}
            ELSE UNION {IF r.ok THEN Generate(r.gen, registry, hops + 1)
                        ELSE {Failed("failed to create referenced generator '"
                                     \o gen.Name \o "': " \o r.msg)} :
                        r \in CreateGeneratorFromDef(registry[gen.Name])}
      [] gen.g = "Array" ->
            LET minLength == IF gen.MinLength > gen.MaxLength
                             THEN gen.MaxLength ELSE gen.MinLength
                lengthRange == WrapInt(gen.MaxLength - minLength + 1)
                draws == RandInt(lengthRange)
                lengths == {WrapInt(minLength + num) : num \in Values(draws)}
                elems == IF \E n \in lengths : n > 0
                         THEN Generate(gen.ElementGenerator, registry, hops) ELSE {}
            IN Panics(draws)
               \cup {Failed("failed to generate array length: " \o m) :
                        m \in Errors(draws)}
               \cup Panics(elems)
               \cup UNION {{Failed("failed to generate array element "
                                   \o ToString(i) \o ": " \o m) :
                               i \in IF Values(elems) = {} THEN {0} ELSE 0..(n - 1)} :
                           n \in {l \in lengths : l > 0}, m \in Errors(elems)}
               \cup UNION {{Returned(ListV(items)) :
                               items \in [1..(IF n > 0 THEN n ELSE 0) -> Values(elems)]} :
                           n \in lengths}

RECURSIVE GenerateEffect(_)
\* what Generate() leaves in the fields of the generator it is called on: the
\* set of the possible generators after the call.  Only ArrayGenerator.Generate
\* assigns to a field (g.MinLength = g.MaxLength when MinLength > MaxLength,
\* before anything else); a generator that holds children calls Generate on
\* those it reaches, which may be none or all of them.
GenerateEffect(gen) ==
    LET Children(gens) ==
            {f \in [DOMAIN gens -> UNION {GenerateEffect(gens[k]) \cup {gens[k]} :
                                           k \in DOMAIN gens}] :
                \A k \in DOMAIN gens : f[k] \in GenerateEffect(gens[k]) \cup {gens[k]}}
    IN
    CASE gen.g = "Array" ->
            {[gen EXCEPT !.MinLength = IF gen.MinLength > gen.MaxLength
                                       THEN gen.MaxLength ELSE gen.MinLength,
                         !.ElementGenerator = e] :
                e \in GenerateEffect(gen.ElementGenerator) \cup {gen.ElementGenerator}}
      [] gen.g = "Object" ->
            {[gen EXCEPT !.Properties = ps] : ps \in Children(gen.Properties)}
      [] gen.g = "Template" ->
            {[gen EXCEPT !.Parameters = ps] : ps \in Children(gen.Parameters)}
      [] OTHER -> {gen}

-----------------------------------------------------------------------------
(* runner: endpoint and base-URL selection *)

\* EndpointSelection.Weights are float64 in the code, and selectWeightedEndpoint
\* draws an integer below int64(totalWeight*1000): the model counts a weight in
\* units of 1 / (1000 * WeightScale).  The choices: no weights, 0.002 and 0.001,
\* 0.001 and 0, a negative weight, a weight below 0.001, weights that sum to
\* zero unless endpoint c is configured.
WeightChoices ==
    {<<>>, [a |-> 2 * WeightScale, b |-> WeightScale], [a |-> WeightScale, c |-> 0],
     [a |-> -WeightScale], [a |-> 1], [b |-> 0, c |-> WeightScale]}

RoundRobinPickStuck(names, idx) ==
    [name |-> names[(idx % Len(names)) + 1], idx |-> idx]

\* names[r.endpointIdx%uint64(len(names))] and r.endpointIdx++ (uint64: no wrap
\* within the model's call counts)
RoundRobinPick(names, idx) ==
    [name |-> names[(idx % Len(names)) + 1], idx |-> idx + 1]

RECURSIVE WeightSum(_, _, _)
\* the sum of the weights of names[1..i] that the weight map holds
WeightSum(names, weights, i) ==
    IF i = 0 THEN 0
    ELSE WeightSum(names, weights, i - 1)
         + (IF names[i] \in DOMAIN weights THEN weights[names[i]] ELSE 0)

\* the cumulative walk of selectWeightedEndpoint: the first weighted name whose
\* cumulative weight reaches target, else the last name
WeightedWalk(names, weights, target) ==
    LET hits == {i \in 1..Len(names) :
                    /\ names[i] \in DOMAIN weights
                    /\ target <= WeightSum(names, weights, i)}
    IN IF hits = {} THEN names[Len(names)]
       ELSE names[CHOOSE i \in hits : \A j \in hits : i <= j]

\* Runner.selectWeightedEndpoint: the set of its possible results, a panic of
\* rand.Int being a result with a panic field
SelectWeightedEndpoint(names, weights, idx) ==
    LET total == WeightSum(names, weights, Len(names))
        draws == RandInt(Int64Thousandths(total))
    IN
    IF DOMAIN weights = {} \/ total = 0
    THEN {RoundRobinPick(names, idx)}
    ELSE {[name |-> "", idx |-> idx, panic |-> o.msg] : o \in Panics(draws)}
         \cup {RoundRobinPick(names, idx) : e \in Errors(draws)}
         \cup {[name |-> WeightedWalk(names, weights, TargetOf(num)), idx |-> idx] :
                  num \in Values(draws)}

\* Runner.selectRandomEndpoint: the set of its possible results
SelectRandomEndpoint(names, idx) ==
    {RoundRobinPick(names, idx)}           \* rand.Int returned an error
    \cup {[name |-> names[k], idx |-> idx] : k \in 1..Len(names)}

\* Runner.selectEndpoint, run under r.mu: the set of its possible results
\* [name, idx], idx being the new r.endpointIdx
SelectEndpoint(c, idx) ==
    UNION {CASE c.Strategy = "weighted" -> SelectWeightedEndpoint(names, c.Weights, idx)
             [] c.Strategy = "random" -> SelectRandomEndpoint(names, idx)
             [] OTHER -> {RoundRobinPick(names, idx)}
           : names \in Perms(c.Endpoints)}

SelectBaseURLFirst(c, idx) == [url |-> c.BaseUrls[1], idx |-> idx + 1]

\* Runner.selectBaseURL, run under r.mu: [url, idx], idx being the new r.urlIdx
SelectBaseURL(c, idx) ==
    [url |-> c.BaseUrls[(idx % Len(c.BaseUrls)) + 1], idx |-> idx + 1]

-----------------------------------------------------------------------------
(* runner: makeRequest *)

\* the endpoints section of the configuration: Config.Endpoints[name] for each
\* name the model uses (cfg.Endpoints is the set of the names configured).  An
\* absent BodyParameters key is a nil BodyParameters.
EndpointConfigs ==
    [a |-> [Method |-> "GET",
            PathParameters |-> [id |-> [type |-> "choice", values |-> <<>>]],
            QueryParameters |-> <<>>],
     b |-> [Method |-> "GET",
            PathParameters |-> [id |-> [type |-> "static", value |-> IntV(1)]],
            QueryParameters |-> <<>>],
     c |-> [Method |-> "POST",
            PathParameters |-> <<>>,
            QueryParameters |-> [page |-> [ref |-> "x"]],
            BodyParameters |->
                [type |-> "object",
                 properties |-> YamlMap([p |-> [ref |-> "x"], q |-> [bare |-> "x"]])]],
     d |-> [Method |-> "GET",
            PathParameters |-> [id |-> [bare |-> "x"]],
            QueryParameters |-> [page |-> [ref |-> "missing"]],
            BodyParameters |-> [type |-> "choice", values |-> <<>>]],
     e |-> [Method |-> "POST",
            PathParameters |-> <<>>,
            QueryParameters |-> <<>>,
            BodyParameters |-> [type |-> "uuid"]],
     f |-> [Method |-> "BAD METHOD",
            PathParameters |-> <<>>,
            QueryParameters |-> <<>>],
     g |-> [Method |-> "GET",
            PathParameters |-> [id |-> [type |-> "randomString", length |-> -1]],
            QueryParameters |-> <<>>],
     h |-> [Method |-> "BAD METHOD",
            PathParameters |-> [id |-> [type |-> "choice"]],
            QueryParameters |-> [page |-> [ref |-> "missing"]],
            BodyParameters |-> [type |-> "uuid"]],
     j |-> [Method |-> "POST",
            PathParameters |-> <<>>,
            QueryParameters |-> <<>>,
            BodyParameters |-> [type |-> "static", value |-> [kind |-> "yamlmap"]]]]

\* the named generators of the configurations that run requests
RunRegistry ==
    [x |-> [type |-> "formattedInt", min |-> 1, max |-> 1, format |-> <<"user_", "{}">>]]

\* the environment of a request: the servers behind the base URLs u1 and u2
\* answer every request with 200; any other server answers with one of
\* StatusChoices, or client.Do returns a transport error instead of a response.
\* AttemptDuration is the elapsed time of an attempt.
StatusChoices == {200, 404, 500}
TransportErrors == {"timeout"}
AttemptDuration == 1

\* url.Parse(fullURL) succeeds on every base URL of the model but this one
BadUrls == {"%zz"}
ValidURL(baseURL) == baseURL \notin BadUrls

\* http.NewRequest accepts a method that is empty (GET) or a token
ValidMethod(method) == method \in {"", "GET", "POST", "PUT", "DELETE"}

RECURSIVE JsonUnsupported(_)
\* json.Marshal(value) fails on a map[interface{}]interface{}, which is what a
\* static value written as a YAML map is
JsonUnsupported(value) ==
    CASE value.kind = "yamlmap" -> TRUE
      [] value.kind = "list" ->
            \E i \in DOMAIN value.items : JsonUnsupported(value.items[i])
      [] value.kind = "map" ->
            \E k \in DOMAIN value.fields : JsonUnsupported(value.fields[k])
      [] OTHER -> FALSE

\* gen, err := r.cfg.GetParameterGenerator(paramDef); value, err := gen.Generate()
\* the outcomes, a failure to build the generator being an error that getMsg opens
\* and a failure to generate one that genMsg opens
GenerateParameter(c, paramDef, getMsg, genMsg) ==
    UNION {IF r.ok
           THEN LET outs == Generate(r.gen, c.ParameterGenerators, 0)
                IN Panics(outs)
                   \cup {Failed(genMsg \o ": " \o m) : m \in Errors(outs)}
                   \cup {Returned(v) : v \in Values(outs)}
           ELSE {Failed(getMsg \o ": " \o r.msg)} :
           r \in GetParameterGenerator(paramDef)}

\* the loop over a parameter map of buildURL and addQueryParams: a panic or the
\* error of a parameter (any can come first in the map's order), or "done"
GenerateParameters(c, params, kind) ==
    LET outs == [k \in DOMAIN params |->
                    GenerateParameter(c, params[k],
                        "failed to get " \o kind \o " parameter generator for " \o k,
                        "failed to generate " \o kind \o " parameter " \o k)]
    IN UNION {Panics(outs[k]) : k \in DOMAIN outs}
       \cup UNION {{Failed(m) : m \in Errors(outs[k])} : k \in DOMAIN outs}
       \cup (IF \A k \in DOMAIN outs : Values(outs[k]) # {}
             THEN {Returned(StrV("done"))} ELSE {})

\* Runner.buildURL: the path's placeholders replaced by generated values.  The
\* URL itself is not modelled beyond the base URL it starts with.
BuildURL(c, endpoint) == GenerateParameters(c, endpoint.PathParameters, "path")

\* Runner.addQueryParams
AddQueryParams(c, baseURL, endpoint) ==
    IF ~ValidURL(baseURL) THEN {Failed("failed to parse URL: invalid URL escape")}
    ELSE GenerateParameters(c, endpoint.QueryParameters, "query")

\* Runner.generateRequestBody
GenerateRequestBody(c, bodyParams) ==
    LET outs == GenerateParameter(c, bodyParams,
                                  "failed to get body parameter generator",
                                  "failed to generate body")
    IN Panics(outs)
       \cup {Failed(m) : m \in Errors(outs)}
       \cup {IF JsonUnsupported(v)
             THEN Failed("json: unsupported type: map[interface {}]interface {}")
             ELSE Returned(v) : v \in Values(outs)}

\* http.NewRequest(endpoint.Method, fullURL, body)
NewRequest(method, baseURL) ==
    IF ~ValidMethod(method) THEN {Failed("net/http: invalid method")}
    ELSE IF ~ValidURL(baseURL) THEN {Failed("parse: invalid URL escape")}
    ELSE {Returned(StrV("request"))}

\* r.client.Do(req): a response with its status, or a transport error
ClientDo(baseURL) ==
    IF baseURL \in {"u1", "u2"} THEN {Returned(IntV(200))}
    ELSE {Returned(IntV(s)) : s \in StatusChoices}
         \cup {Failed(m) : m \in TransportErrors}

CreateErrorMetricUnflagged(errorMsg) ==
    [StatusCode |-> 0, IsError |-> FALSE, ErrorMsg |-> errorMsg,
     Duration |-> AttemptDuration]

\* Runner.createErrorMetric
CreateErrorMetric(errorMsg) ==
    [StatusCode |-> 0, IsError |-> TRUE, ErrorMsg |-> errorMsg,
     Duration |-> AttemptDuration]

ResponseMetricFlagged(statusCode) ==
    [StatusCode |-> statusCode, IsError |-> statusCode >= 400,
     ErrorMsg |-> IF statusCode >= 400 THEN "http error" ELSE "",
     Duration |-> AttemptDuration]

\* the MetricDetail makeRequest returns for a received response
ResponseMetric(statusCode) ==
    [StatusCode |-> statusCode, IsError |-> FALSE, ErrorMsg |-> "",
     Duration |-> AttemptDuration]

\* what one makeRequest call ends in: the detail it returns, with (as history)
\* the steps it evaluated, the number of HTTP calls it made and the status of the
\* response it received (0: none); or a panic
Attempt(detail, steps, calls, resp) ==
    [out |-> "detail", detail |-> detail, steps |-> steps, calls |-> calls,
     resp |-> resp]

AttemptPanics(outs, steps) ==
    {[out |-> "panic", msg |-> o.msg, steps |-> steps] : o \in Panics(outs)}

\* a failed step short-circuits: the error metric with the step's message
StepFailures(outs, prefix, steps, calls) ==
    {Attempt(CreateErrorMetric(prefix \o m), steps, calls, 0) : m \in Errors(outs)}

ContinueAfterFailure(outs) == outs # {}

\* the step's result lets makeRequest go on: err == nil
StepSucceeded(outs) == Values(outs) # {}

\* makeRequest, from r.client.Do on
ExecuteRequest(baseURL, steps) ==
    LET outs == ClientDo(baseURL)
        done == Append(steps, "Do")
    IN StepFailures(outs, "", done, 1)
       \cup {Attempt(ResponseMetric(v.n), done, 1, v.n) : v \in Values(outs)}

\* makeRequest, from http.NewRequest on
CreateRequest(baseURL, endpoint, steps) ==
    LET outs == NewRequest(endpoint.Method, baseURL)
        done == Append(steps, "NewRequest")
    IN StepFailures(outs, "Request creation failed: ", done, 0)
       \cup (IF StepSucceeded(outs) THEN ExecuteRequest(baseURL, done) ELSE {})

\* makeRequest, from the body on
GenerateBody(c, baseURL, endpoint, steps) ==
    IF "BodyParameters" \in DOMAIN endpoint
    THEN LET outs == GenerateRequestBody(c, endpoint.BodyParameters)
             done == Append(steps, "generateRequestBody")
         IN AttemptPanics(outs, done)
            \cup StepFailures(outs, "Body generation failed: ", done, 0)
            \cup (IF StepSucceeded(outs) THEN CreateRequest(baseURL, endpoint, done)
                  ELSE {})
    ELSE CreateRequest(baseURL, endpoint, steps)

\* makeRequest, from the query parameters on
AddQuery(c, baseURL, endpoint, steps) ==
    IF DOMAIN endpoint.QueryParameters # {}
    THEN LET outs == AddQueryParams(c, baseURL, endpoint)
             done == Append(steps, "addQueryParams")
         IN AttemptPanics(outs, done)
            \cup StepFailures(outs, "Query params failed: ", done, 0)
            \cup (IF StepSucceeded(outs) THEN GenerateBody(c, baseURL, endpoint, done)
                  ELSE {})
    ELSE GenerateBody(c, baseURL, endpoint, steps)

\* Runner.makeRequest(baseURL, endpointName, endpoint): the set of its outcomes
MakeRequest(c, baseURL, endpointName) ==
    LET endpoint == EndpointConfigs[endpointName]
        outs == BuildURL(c, endpoint)
        done == <<"buildURL">>
    IN AttemptPanics(outs, done)
       \cup StepFailures(outs, "URL building failed: ", done, 0)
       \cup (IF StepSucceeded(outs) THEN AddQuery(c, baseURL, endpoint, done) ELSE {})

-----------------------------------------------------------------------------
(* runner: Run and runFixedRPSMode *)

\* the configurations a run is started with
ModeChoices == {"fixed", "ramp", "burst"}
RateChoices == {-1, 0, 1, 3, Second + 1}
DurationChoices == {-1, 0, 1}

RunConfigs ==
    [Mode : ModeChoices, RequestsPerSecond : RateChoices,
     DurationSeconds : DurationChoices,
     Endpoints : {{}, {"a", "b"}}, BaseUrls : {<<>>, <<"u1", "u2">>},
     Strategy : {"roundRobin"}, Weights : {<<>>},
     ParameterGenerators : {RunRegistry}]

\* a placeholder where a goroutine holds no detail yet
NoDetail == [StatusCode |-> 0, IsError |-> FALSE, ErrorMsg |-> "", Duration |-> 0]

\* a request goroutine: its position, its locals endpointName and baseURL ("" while
\* unset or no longer read), detail, and the value it read of requestCount
Task(at, endpointName, baseURL, detail, v) ==
    [at |-> at, endpointName |-> endpointName, baseURL |-> baseURL,
     detail |-> detail, v |-> v]

Move(from, to) == (tasks (-) SetToBag({from})) (+) SetToBag({to})

ModeIsFixedOrRamp(mode) == mode \in {"fixed", "ramp"}

\* Run's switch: case "fixed"
ModeIsFixed(mode) == mode = "fixed"

ValidateFixedNoRate(c) ==
    IF c.RequestsPerSecond < 0 THEN "requestsPerSecond must be positive for fixed mode"
    ELSE IF c.Endpoints = {} THEN "no endpoints configured"
    ELSE IF Len(c.BaseUrls) = 0 THEN "no base URLs configured"
    ELSE "nil"

\* the three checks that open runFixedRPSMode: the error returned, or "nil"
ValidateFixed(c) ==
    IF c.RequestsPerSecond <= 0 THEN "requestsPerSecond must be positive for fixed mode"
    ELSE IF c.Endpoints = {} THEN "no endpoints configured"
    ELSE IF Len(c.BaseUrls) = 0 THEN "no base URLs configured"
    ELSE "nil"

\* totalDuration := time.Duration(DurationSeconds) * time.Second
TotalDuration(c) == c.DurationSeconds * Second

\* time.Second / time.Duration(RequestsPerSecond), an integer division; 0 stands
\* for the division by zero
Interval(c) ==
    IF c.RequestsPerSecond = 0 THEN 0
    ELSE IF c.RequestsPerSecond > 0 THEN Second \div c.RequestsPerSecond
    ELSE -(Second \div (-c.RequestsPerSecond))

\* a panic in any goroutine ends the process
Alive == panic = "none"

\* Runner.Run, up to the start of the control loop
Run ==
    /\ Alive
    /\ pc = "idle"
    /\ \/ /\ ~ModeIsFixed(cfg.Mode)
          /\ pc' = "returned"
          /\ err' = IF cfg.Mode = "ramp" THEN "ramp up mode not yet implemented"
                    ELSE "unknown mode"
          /\ UNCHANGED <<now, nextTick, aggregator, panic>>
       \/ /\ ModeIsFixed(cfg.Mode)
          /\ ValidateFixed(cfg) # "nil"
          /\ pc' = "returned"
          /\ err' = ValidateFixed(cfg)
          /\ UNCHANGED <<now, nextTick, aggregator, panic>>
       \/ /\ ModeIsFixed(cfg.Mode)
          /\ ValidateFixed(cfg) = "nil"
          /\ IF Interval(cfg) <= 0
             THEN \* division by zero, or NewTicker's panic on a non-positive interval
                  /\ panic' = "non-positive interval for NewTicker"
                  /\ UNCHANGED <<pc, now, nextTick, aggregator>>
             ELSE /\ pc' = "loop"
                  /\ now' = 0
                  /\ nextTick' = Interval(cfg)
                  /\ aggregator' = "running"
                  /\ panic' = panic
          /\ err' = err
    /\ UNCHANGED <<allRequests, cfg, endpointIdx, urlIdx, picked, pickedUrl, resultsCh,
                   closes, tickerC, tasks, spawned, finished, produced, requestCount,
                   lateSpawn>>
    /\ UNCHANGED <<genVars, requestVars, callerVars>>

\* time passes while the control loop runs (nothing reads the clock after it); the
\* ticker, created at the instant startTime is read, sends on ticker.C when its
\* period ends, and drops the tick if one is still buffered.  The clock stops one
\* unit past the deadline: from there on every comparison reads the same.
Advance ==
    /\ Alive
    /\ pc \in {"loop", "select", "tick"}
    /\ now <= TotalDuration(cfg)
    /\ now' = now + 1
    /\ IF now + 1 >= nextTick
       THEN tickerC' = 1 /\ nextTick' = nextTick + Interval(cfg)
       ELSE UNCHANGED <<tickerC, nextTick>>
    /\ UNCHANGED <<allRequests, cfg, endpointIdx, urlIdx, picked, pickedUrl, resultsCh,
                   closes, pc, err, tasks, spawned, finished, produced, aggregator,
                   requestCount, lateSpawn, panic>>
    /\ UNCHANGED <<genVars, requestVars, callerVars>>

\* the loop condition: for time.Since(startTime) < totalDuration
LoopCond ==
    /\ Alive
    /\ pc = "loop"
    /\ pc' = IF now < TotalDuration(cfg) THEN "select" ELSE "wait"
    /\ UNCHANGED <<allRequests, cfg, endpointIdx, urlIdx, picked, pickedUrl, resultsCh,
                   closes, err, now, tickerC, nextTick, tasks, spawned, finished,
                   produced, aggregator, requestCount, lateSpawn, panic>>
    /\ UNCHANGED <<genVars, requestVars, callerVars>>

\* the select: a tick is received, or the timer of
\* time.After(totalDuration - time.Since(startTime)) has fired
Select ==
    /\ Alive
    /\ pc = "select"
    /\ \/ /\ tickerC = 1
          /\ tickerC' = 0
          /\ pc' = "tick"
       \/ /\ now >= TotalDuration(cfg)
          /\ pc' = "wait"
          /\ UNCHANGED tickerC
    /\ UNCHANGED <<allRequests, cfg, endpointIdx, urlIdx, picked, pickedUrl, resultsCh,
                   closes, err, now, nextTick, tasks, spawned, finished, produced,
                   aggregator, requestCount, lateSpawn, panic>>
    /\ UNCHANGED <<genVars, requestVars, callerVars>>

\* the check after a tick: time.Since(startTime) >= totalDuration
DeadlineReached(elapsed, total) == elapsed >= total

\* case <-ticker.C: break at the deadline, else wg.Add(1) and start a request goroutine
TickCase ==
    /\ Alive
    /\ pc = "tick"
    /\ IF DeadlineReached(now, TotalDuration(cfg))
       THEN /\ pc' = "wait"
            /\ UNCHANGED <<tasks, spawned, lateSpawn>>
       ELSE /\ pc' = "loop"
            /\ tasks' = tasks (+) SetToBag({Task("selectEndpoint", "", "", NoDetail, 0)})
            /\ spawned' = spawned + 1
            /\ lateSpawn' = (lateSpawn \/ now >= TotalDuration(cfg))
    /\ UNCHANGED <<allRequests, cfg, endpointIdx, urlIdx, picked, pickedUrl, resultsCh,
                   closes, err, now, tickerC, nextTick, finished, produced, aggregator,
                   requestCount, panic>>
    /\ UNCHANGED <<genVars, requestVars, callerVars>>

WaitGroupSkipped == TRUE

\* wg.Wait() returns: every request goroutine has run wg.Done
WaitGroupDone == finished = spawned

\* wg.Wait()
Wait ==
    /\ Alive
    /\ pc = "wait"
    /\ WaitGroupDone
    /\ pc' = "close"
    /\ UNCHANGED <<allRequests, cfg, endpointIdx, urlIdx, picked, pickedUrl, resultsCh,
                   closes, err, now, tickerC, nextTick, tasks, spawned, finished,
                   produced, aggregator, requestCount, lateSpawn, panic>>
    /\ UNCHANGED <<genVars, requestVars, callerVars>>

\* close(r.resultsCh); closing a closed channel panics
Close ==
    /\ Alive
    /\ pc = "close"
    /\ IF closes > 0
       THEN panic' = "close of closed channel" /\ UNCHANGED <<pc, closes>>
       ELSE pc' = "collectorWait" /\ closes' = closes + 1 /\ panic' = panic
    /\ UNCHANGED <<allRequests, cfg, endpointIdx, urlIdx, picked, pickedUrl, resultsCh,
                   err, now, tickerC, nextTick, tasks, spawned, finished, produced,
                   aggregator, requestCount, lateSpawn>>
    /\ UNCHANGED <<genVars, requestVars, callerVars>>

CollectorWaitSkipped == TRUE

\* collectorWg.Wait() returns: the collector goroutine has run collectorWg.Done
CollectorDone == aggregator = "done"

\* collectorWg.Wait(), the log line, return &BenchmarkResult{}, nil
CollectorWait ==
    /\ Alive
    /\ pc = "collectorWait"
    /\ CollectorDone
    /\ pc' = "returned"
    /\ err' = "nil"
    /\ UNCHANGED <<allRequests, cfg, endpointIdx, urlIdx, picked, pickedUrl, resultsCh,
                   closes, now, tickerC, nextTick, tasks, spawned, finished, produced,
                   aggregator, requestCount, lateSpawn, panic>>
    /\ UNCHANGED <<genVars, requestVars, callerVars>>

\* the request goroutine: endpointName, endpoint := r.selectEndpoint()
TaskSelectEndpoint ==
    /\ Alive
    /\ \E t \in BagToSet(tasks) :
          /\ t.at = "selectEndpoint"
          /\ \E o \in SelectEndpoint(cfg, endpointIdx) :
                IF "panic" \in DOMAIN o
                THEN panic' = o.panic /\ UNCHANGED <<endpointIdx, tasks>>
                ELSE /\ endpointIdx' = o.idx
                     /\ tasks' = Move(t, Task("selectBaseURL", o.name, "", NoDetail, 0))
                     /\ panic' = panic
    /\ UNCHANGED <<allRequests, cfg, urlIdx, picked, pickedUrl, resultsCh, closes, pc,
                   err, now, tickerC, nextTick, spawned, finished, produced, aggregator,
                   requestCount, lateSpawn>>
    /\ UNCHANGED <<genVars, requestVars, callerVars>>

\* the request goroutine: baseURL := r.selectBaseURL()
TaskSelectBaseURL ==
    /\ Alive
    /\ \E t \in BagToSet(tasks) :
          /\ t.at = "selectBaseURL"
          /\ urlIdx' = SelectBaseURL(cfg, urlIdx).idx
          /\ tasks' = Move(t, Task("makeRequest", t.endpointName,
                                   SelectBaseURL(cfg, urlIdx).url, NoDetail, 0))
    /\ UNCHANGED <<allRequests, cfg, endpointIdx, picked, pickedUrl, resultsCh, closes,
                   pc, err, now, tickerC, nextTick, spawned, finished, produced,
                   aggregator, requestCount, lateSpawn, panic>>
    /\ UNCHANGED <<genVars, requestVars, callerVars>>

\* the request goroutine: detail := r.makeRequest(baseURL, endpointName, endpoint)
TaskMakeRequest ==
    /\ Alive
    /\ \E t \in BagToSet(tasks) :
          /\ t.at = "makeRequest"
          /\ \E o \in MakeRequest(cfg, t.baseURL, t.endpointName) :
                IF o.out = "panic"
                THEN panic' = o.msg /\ UNCHANGED <<tasks, produced>>
                ELSE /\ tasks' = Move(t, Task("send", "", "", o.detail, 0))
                     /\ produced' = produced (+) SetToBag({o.detail})
                     /\ panic' = panic
    /\ UNCHANGED <<allRequests, cfg, endpointIdx, urlIdx, picked, pickedUrl, resultsCh,
                   closes, pc, err, now, tickerC, nextTick, spawned, finished,
                   aggregator, requestCount, lateSpawn>>
    /\ UNCHANGED <<genVars, requestVars, callerVars>>

\* the request goroutine: r.resultsCh <- detail.  The send blocks while the buffer
\* is full, and panics on a closed channel.
TaskSend ==
    /\ Alive
    /\ \E t \in BagToSet(tasks) :
          /\ t.at = "send"
          /\ IF closes > 0
             THEN /\ panic' = "send on closed channel"
                  /\ UNCHANGED <<resultsCh, tasks>>
             ELSE /\ Len(resultsCh) < ChanCap
                  /\ resultsCh' = Append(resultsCh, t.detail)
                  /\ tasks' = Move(t, Task("count", "", "", NoDetail, 0))
                  /\ panic' = panic
    /\ UNCHANGED <<allRequests, cfg, endpointIdx, urlIdx, picked, pickedUrl, closes,
                   pc, err, now, tickerC, nextTick, spawned, finished, produced, aggregator,
                   requestCount, lateSpawn>>
    /\ UNCHANGED <<genVars, requestVars, callerVars>>

\* the request goroutine: requestCount++, the read.  The goroutines share the
\* variable without synchronisation, so the read and the write are two steps.
TaskCountRead ==
    /\ Alive
    /\ \E t \in BagToSet(tasks) :
          /\ t.at = "count"
          /\ tasks' = Move(t, Task("countWrite", "", "", NoDetail, requestCount))
    /\ UNCHANGED <<allRequests, cfg, endpointIdx, urlIdx, picked, pickedUrl, resultsCh,
                   closes, pc, err, now, tickerC, nextTick, spawned, finished, produced,
                   aggregator, requestCount, lateSpawn, panic>>
    /\ UNCHANGED <<genVars, requestVars, callerVars>>

\* the request goroutine: requestCount++, the write; then the deferred wg.Done()
TaskCountWrite ==
    /\ Alive
    /\ \E t \in BagToSet(tasks) :
          /\ t.at = "countWrite"
          /\ requestCount' = t.v + 1
          /\ tasks' = tasks (-) SetToBag({t})
          /\ finished' = finished + 1
    /\ UNCHANGED <<allRequests, cfg, endpointIdx, urlIdx, picked, pickedUrl, resultsCh,
                   closes, pc, err, now, tickerC, nextTick, spawned, produced,
                   aggregator, lateSpawn, panic>>
    /\ UNCHANGED <<genVars, requestVars, callerVars>>

ReceiveAfterClose == aggregator = "running" /\ resultsCh # <<>> /\ closes > 0

\* the collector goroutine's range can take a detail
CanReceive == aggregator = "running" /\ resultsCh # <<>>

\* the collector goroutine: for detail := range r.resultsCh { AppendDetail(detail) }
AggregatorReceive ==
    /\ Alive
    /\ CanReceive
    /\ AppendDetail(Head(resultsCh))
    /\ resultsCh' = Tail(resultsCh)
    /\ UNCHANGED <<cfg, endpointIdx, urlIdx, picked, pickedUrl, closes, pc, err, now,
                   tickerC, nextTick, tasks, spawned, finished, produced, aggregator,
                   requestCount, lateSpawn, panic>>
    /\ UNCHANGED <<genVars, requestVars, callerVars>>

\* the collector goroutine: the range ends on the closed, drained channel;
\* the deferred collectorWg.Done()
AggregatorExit ==
    /\ Alive
    /\ aggregator = "running"
    /\ resultsCh = <<>>
    /\ closes > 0
    /\ aggregator' = "done"
    /\ UNCHANGED <<allRequests, cfg, endpointIdx, urlIdx, picked, pickedUrl, resultsCh,
                   closes, pc, err, now, tickerC, nextTick, tasks, spawned, finished,
                   produced, requestCount, lateSpawn, panic>>
    /\ UNCHANGED <<genVars, requestVars, callerVars>>

\* NewParameterEngine: no generator registered
NewParameterEngine == [generators |-> <<>>, outs |-> <<>>]

\* NewCollector and NewRunner: an empty record list, both counters 0, an open
\* empty channel; nothing of a run has happened
Fresh ==
    /\ allRequests = <<>>
    /\ endpointIdx = 0
    /\ urlIdx = 0
    /\ picked = <<>>
    /\ pickedUrl = <<>>
    /\ resultsCh = <<>>
    /\ closes = 0
    /\ pc = "idle"
    /\ err = "none"
    /\ now = 0
    /\ tickerC = 0
    /\ nextTick = 0
    /\ tasks = EmptyBag
    /\ spawned = 0
    /\ finished = 0
    /\ produced = EmptyBag
    /\ aggregator = "off"
    /\ requestCount = 0
    /\ lateSpawn = FALSE
    /\ panic = "none"
    /\ attempts = <<>>
    /\ engine = NewParameterEngine

\* both mutexes unlocked, and no goroutine calling in from outside the run
NoCallers == mu = 0 /\ mutex = 0 /\ callers = <<>> /\ reruns = 0

\* a placeholder where no definition is under evaluation
NoDef == [bare |-> ""]

\* LoadConfig has returned the configuration; no definition is under evaluation
Loaded ==
    /\ loadErr = "nil"
    /\ evalDef = NoDef
    /\ genOuts = <<>>

Init ==
    /\ cfg \in RunConfigs
    /\ Fresh
    /\ Loaded
    /\ NoCallers

Next ==
    \/ Run
    \/ Advance
    \/ LoopCond
    \/ Select
    \/ TickCase
    \/ Wait
    \/ Close
    \/ CollectorWait
    \/ TaskSelectEndpoint
    \/ TaskSelectBaseURL
    \/ TaskMakeRequest
    \/ TaskSend
    \/ TaskCountRead
    \/ TaskCountWrite
    \/ AggregatorReceive
    \/ AggregatorExit

Spec == Init /\ [][Next]_vars

\* the scheduler runs every goroutine that can take a step, the clock advances,
\* and every HTTP call returns (a response, or the client's timeout)
FairSpec ==
    /\ Spec
    /\ WF_vars(Advance)
    /\ WF_vars(Run \/ LoopCond \/ Select \/ TickCase \/ Wait \/ Close \/ CollectorWait)
    /\ WF_vars(TaskSelectEndpoint \/ TaskSelectBaseURL \/ TaskMakeRequest)
    /\ WF_vars(TaskSend)
    /\ WF_vars(TaskCountRead \/ TaskCountWrite)
    /\ WF_vars(AggregatorReceive \/ AggregatorExit)

-----------------------------------------------------------------------------
(* SpecRuns: Run is invoked on one Runner, and again after it has returned.
   NewRunner makes r.resultsCh once; every invocation uses that channel. *)

\* the configurations of the Runner invoked repeatedly: two requests per second
\* for no time or for a second, and a mode that Run rejects
RerunConfigs ==
    [Mode : {"fixed", "ramp"}, RequestsPerSecond : {2}, DurationSeconds : {0, 1},
     Endpoints : {{"a", "b"}}, BaseUrls : {<<"u1", "u2">>},
     Strategy : {"roundRobin"}, Weights : {<<>>},
     ParameterGenerators : {RunRegistry}]

\* the caller invokes r.Run() again on the Runner whose Run has returned: the
\* locals of the last invocation (wg, startTime, ticker, requestCount, the
\* collector goroutine's WaitGroup) are gone; the Runner's fields stay as they are
RunAgain ==
    /\ Alive
    /\ pc = "returned"
    /\ reruns < MaxReruns
    /\ reruns' = reruns + 1
    /\ pc' = "idle"
    /\ err' = "none"
    /\ now' = 0
    /\ tickerC' = 0
    /\ nextTick' = 0
    /\ spawned' = 0
    /\ finished' = 0
    /\ produced' = EmptyBag
    /\ aggregator' = "off"
    /\ requestCount' = 0
    /\ lateSpawn' = FALSE
    /\ UNCHANGED <<allRequests, cfg, endpointIdx, urlIdx, picked, pickedUrl, resultsCh,
                   closes, tasks, panic>>
    /\ UNCHANGED <<genVars, requestVars, mu, mutex, callers>>

InitRuns ==
    /\ cfg \in RerunConfigs
    /\ Fresh
    /\ Loaded
    /\ NoCallers

NextRuns == Next \/ RunAgain

SpecRuns == InitRuns /\ [][NextRuns]_vars

-----------------------------------------------------------------------------
(* SpecCollector: records are ingested into a fresh Collector *)

\* a configuration for the specifications that run nothing
IdleConfig ==
    [Mode |-> "fixed", RequestsPerSecond |-> 1, DurationSeconds |-> 1,
     Endpoints |-> {"a"}, BaseUrls |-> <<"u1">>, Strategy |-> "roundRobin",
     Weights |-> <<>>, ParameterGenerators |-> RunRegistry]

RecordRequestCall ==
    /\ \E d \in MetricDetails :
          RecordRequest(d.StatusCode, d.Duration, d.IsError, d.ErrorMsg)
    /\ UNCHANGED <<cfg, selectVars, runVars>>
    /\ UNCHANGED <<genVars, requestVars, callerVars>>

AppendDetailCall ==
    /\ Len(allRequests) < MaxRecords
    /\ \E d \in MetricDetails : AppendDetail(d)
    /\ UNCHANGED <<cfg, selectVars, runVars>>
    /\ UNCHANGED <<genVars, requestVars, callerVars>>

\* a caller's c.GetResults(), run to its return between two ingestions; callers
\* keeps the latest such call: the list it read and the result it returned
GetResultsCall ==
    /\ callers' = <<[op |-> "GetResults", at |-> "done", seenEndpointIdx |-> -1,
                      seenUrlIdx |-> -1, local |-> allRequests,
                      snapshot |-> <<GetResults(allRequests)>>]>>
    /\ UNCHANGED <<cfg, collectorVars, selectVars, runVars>>
    /\ UNCHANGED <<genVars, requestVars, mu, mutex, reruns>>

InitCollector == cfg = IdleConfig /\ Fresh /\ Loaded /\ NoCallers

NextCollector == RecordRequestCall \/ AppendDetailCall \/ GetResultsCall

SpecCollector == InitCollector /\ [][NextCollector]_vars

-----------------------------------------------------------------------------
(* SpecSelect: successive selections on a fresh Runner *)

SelectConfigs ==
    [Mode : {"fixed"}, RequestsPerSecond : {1}, DurationSeconds : {1},
     Endpoints : {{"a"}, {"a", "b"}, {"a", "b", "c"}},
     BaseUrls : {<<"u1">>, <<"u1", "u2">>},
     Strategy : {"roundRobin", "weighted", "random"}, Weights : WeightChoices,
     ParameterGenerators : {RunRegistry}]

SelectEndpointCall ==
    /\ Alive
    /\ Len(picked) + Len(pickedUrl) < MaxCalls
    /\ \E o \in SelectEndpoint(cfg, endpointIdx) :
          IF "panic" \in DOMAIN o
          THEN panic' = o.panic /\ UNCHANGED <<endpointIdx, picked>>
          ELSE /\ endpointIdx' = o.idx
               /\ picked' = Append(picked, o.name)
               /\ panic' = panic
    /\ UNCHANGED <<cfg, collectorVars, urlIdx, pickedUrl, resultsCh, closes, pc, err,
                   now, tickerC, nextTick, tasks, spawned, finished, produced,
                   aggregator, requestCount, lateSpawn>>
    /\ UNCHANGED <<genVars, requestVars, callerVars>>

SelectBaseURLCall ==
    /\ Alive
    /\ Len(picked) + Len(pickedUrl) < MaxCalls
    /\ urlIdx' = SelectBaseURL(cfg, urlIdx).idx
    /\ pickedUrl' = Append(pickedUrl, SelectBaseURL(cfg, urlIdx).url)
    /\ UNCHANGED <<cfg, collectorVars, runVars, endpointIdx, picked>>
    /\ UNCHANGED <<genVars, requestVars, callerVars>>

InitSelect == cfg \in SelectConfigs /\ Fresh /\ Loaded /\ NoCallers

NextSelect == SelectEndpointCall \/ SelectBaseURLCall

SpecSelect == InitSelect /\ [][NextSelect]_vars

-----------------------------------------------------------------------------
(* SpecGen: LoadConfig registers the named generators, then one parameter
   definition is evaluated again and again *)

\* LoadConfig, from the creation of the engine on: every named definition is
\* built; the error returned, or "nil"
LoadConfig(registry) ==
    LET failures ==
            UNION {{"failed to create named generator '" \o name \o "': " \o r.msg :
                       r \in {q \in CreateGeneratorFromDef(registry[name]) : ~q.ok}} :
                   name \in DOMAIN registry}
    IN IF failures = {} THEN {"nil"} ELSE failures

\* the parameterGenerators sections of the model
GenRegistry ==
    [x |-> [type |-> "formattedInt", min |-> 1, max |-> 1, format |-> <<"user_", "{}">>],
     r |-> [type |-> "randomInt", min |-> 0, max |-> 1],
     o |-> [type |-> "object",
            properties |-> [p |-> [type |-> "static", value |-> IntV(1)],
                            q |-> [ref |-> "x"]]],
     w |-> [type |-> "choice", values |-> <<StrV("a"), StrV("b")>>,
            weights |-> <<WeightScale, 0>>],
     t |-> [type |-> "template", template |-> <<"{{p}}", "-">>,
            parameters |-> [p |-> [type |-> "static", value |-> IntV(1)]]]]

CyclicRegistry ==
    [x |-> [type |-> "static", value |-> IntV(1)],
     cyc |-> [type |-> "array", minLength |-> 1, maxLength |-> 1,
              elementGenerator |-> [ref |-> "cyc"]],
     ping |-> [type |-> "array", minLength |-> 1, maxLength |-> 1,
               elementGenerator |->
                   [type |-> "object", properties |-> YamlMap([p |-> [ref |-> "pong"]])]],
     pong |-> [type |-> "array", minLength |-> 1, maxLength |-> 1,
               elementGenerator |->
                   [type |-> "template", template |-> <<"{{p}}">>,
                    parameters |-> YamlMap([p |-> [ref |-> "ping"]])]]]

BrokenRegistry ==
    [x |-> [type |-> "static", value |-> IntV(1)],
     bad |-> [type |-> "uuid"]]

RegistryChoices == {GenRegistry, CyclicRegistry, BrokenRegistry}

\* the inline definitions evaluated
IntChoices == {MinInt, -1, 0, 2, MaxInt}
LengthChoices == {-1, 0, 1, 2}

StaticOne == [type |-> "static", value |-> IntV(1)]
ZeroOrOne == [type |-> "randomInt", min |-> 0, max |-> 1]
EmptyChoice == [type |-> "choice", values |-> <<>>]

ReferenceDefs ==
    {[ref |-> n] : n \in {"x", "r", "o", "w", "t", "cyc", "ping", "missing"}}

\* format strings: "n{}", one without the token ("id"), "{}%%", "%d-{}"
FormatChoices == {<<"n", "{}">>, <<"id">>, <<"{}", "%%">>, <<"%d", "-", "{}">>}

RandomIntDefs ==
    {[type |-> "randomInt", min |-> lo, max |-> hi] : lo \in IntChoices, hi \in IntChoices}
    \cup {[type |-> "randomInt"],
          [type |-> "randomInt", min |-> 0, max |-> 1, format |-> <<"n", "{}">>],
          [type |-> "formattedInt", min |-> 1, max |-> 2],
          [type |-> "formattedInt", min |-> 1, max |-> 1, format |-> <<>>]}
    \cup {[type |-> "formattedInt", min |-> lo, max |-> 1, format |-> f] :
             lo \in {0, 1}, f \in FormatChoices}

ArrayDefs ==
    {[type |-> "array", minLength |-> lo, maxLength |-> hi, elementGenerator |-> el] :
        lo \in LengthChoices, hi \in LengthChoices,
        el \in {StaticOne, ZeroOrOne, EmptyChoice}}
    \cup {[type |-> "array", minLength |-> 0, maxLength |-> MaxInt,
           elementGenerator |-> StaticOne],
          [type |-> "array", minLength |-> 1, maxLength |-> 1,
           elementGenerator |-> [type |-> "uuid"]],
          [type |-> "array", minLength |-> 1, maxLength |-> 1]}

ValueChoices ==
    {<<>>, <<StrV("a")>>, <<StrV("a"), StrV("b")>>, <<StrV("a"), StrV("b"), StrV("c")>>}

WeightListChoices ==
    {<<>>, <<WeightScale>>, <<1, 0>>, <<2 * WeightScale, WeightScale>>,
     <<0, 2 * WeightScale>>, <<-WeightScale, WeightScale>>,
     <<-2 * WeightScale, WeightScale>>, <<WeightScale, WeightScale, 2 * WeightScale>>}

ChoiceDefs ==
    {[type |-> "choice", values |-> vs] : vs \in ValueChoices}
    \cup {[type |-> "choice", values |-> vs, weights |-> YamlList(ws)] :
             vs \in ValueChoices, ws \in WeightListChoices}
    \cup {[type |-> "choice"]}

ObjectDefs ==
    {[type |-> "object"],
     [type |-> "object", properties |-> YamlMap([p |-> StaticOne, q |-> ZeroOrOne])],
     [type |-> "object", properties |-> YamlMap([p |-> StaticOne, q |-> EmptyChoice])],
     [type |-> "object", properties |-> YamlMap([p |-> [ref |-> "o"], q |-> [bare |-> "x"]])],
     [type |-> "object", properties |-> YamlMap([p |-> [type |-> "uuid"]])]}

OtherDefs ==
    {[bare |-> "x"], [other |-> "int"], [type |-> "uuid"], [value |-> IntV(1)],
     StaticOne, [type |-> "static"],
     [type |-> "randomString", length |-> -1],
     [type |-> "randomString", length |-> 0],
     [type |-> "randomString", length |-> 2, charset |-> "hex"],
     [type |-> "template", template |-> <<"id-", "{{p}}", "-", "{{q}}">>,
      parameters |-> YamlMap([p |-> ZeroOrOne, q |-> [bare |-> "{{p}}"]])],
     [type |-> "template", template |-> <<"{{p}}", "/", "{{r}}">>,
      parameters |-> YamlMap([p |-> StaticOne, q |-> ZeroOrOne])],
     [type |-> "template"]}

DefChoices ==
    ReferenceDefs \cup RandomIntDefs \cup ArrayDefs \cup ChoiceDefs \cup ObjectDefs
    \cup OtherDefs

LoadConfigCall ==
    /\ Alive
    /\ loadErr = "none"
    /\ loadErr' \in LoadConfig(cfg.ParameterGenerators)
    /\ UNCHANGED <<cfg, collectorVars, selectVars, runVars, evalDef, genOuts, requestVars,
                   callerVars, engine>>

\* one evaluation of the definition as generateRequestBody starts it:
\* gen, err := r.cfg.GetParameterGenerator(bodyParams); value, err := gen.Generate()
GenerateParameterCall ==
    /\ Alive
    /\ loadErr = "nil"
    /\ Len(genOuts) < MaxEvals
    /\ \E o \in GenerateParameter(cfg, evalDef, "failed to get body parameter generator",
                                  "failed to generate body") :
          /\ genOuts' = Append(genOuts, o)
          /\ panic' = IF o.out = "panic" THEN o.msg ELSE panic
    /\ UNCHANGED <<cfg, collectorVars, selectVars, resultsCh, closes, pc, err, now,
                   tickerC, nextTick, tasks, spawned, finished, produced, aggregator,
                   requestCount, lateSpawn, loadErr, evalDef, requestVars,
                   callerVars, engine>>

\* gen, err := pe.createGeneratorWithConfig(def, config);
\* pe.RegisterGenerator(name, gen): the generator built from the definition is
\* registered in the engine
RegisterGeneratorCall ==
    /\ Alive
    /\ engine.generators = <<>>
    /\ \E r \in CreateGeneratorWithConfig(evalDef) :
          /\ r.ok
          /\ engine' = [engine EXCEPT !.generators = <<r.gen>>]
    /\ UNCHANGED <<cfg, collectorVars, selectVars, runVars, loadErr, evalDef, genOuts,
                   requestVars, callerVars>>

\* pe.GenerateValue(name, ...): gen.Generate() on the registered instance
GenerateValueCall ==
    /\ Alive
    /\ engine.generators # <<>>
    /\ Len(engine.outs) < MaxEvals
    /\ \E o \in Generate(engine.generators[1], cfg.ParameterGenerators, 0),
          after \in GenerateEffect(engine.generators[1]) :
          /\ engine' = [generators |-> <<after>>, outs |-> Append(engine.outs, o)]
          /\ panic' = IF o.out = "panic" THEN o.msg ELSE panic
    /\ UNCHANGED <<cfg, collectorVars, selectVars, resultsCh, closes, pc, err, now,
                   tickerC, nextTick, tasks, spawned, finished, produced, aggregator,
                   requestCount, lateSpawn, loadErr, evalDef, genOuts, requestVars,
                   callerVars>>

InitGen ==
    /\ \E registry \in RegistryChoices :
          cfg = [IdleConfig EXCEPT !.ParameterGenerators = registry]
    /\ Fresh
    /\ loadErr = "none"
    /\ evalDef \in DefChoices
    /\ genOuts = <<>>
    /\ NoCallers

NextGen ==
    \/ LoadConfigCall
    \/ GenerateParameterCall
    \/ RegisterGeneratorCall
    \/ GenerateValueCall

SpecGen == InitGen /\ [][NextGen]_vars

-----------------------------------------------------------------------------
(* SpecRequest: successive makeRequest calls on one endpoint and base URL; the
   details are ingested as the aggregator ingests them *)

RequestConfigs ==
    {[IdleConfig EXCEPT !.Endpoints = {e}, !.BaseUrls = <<u>>] :
        e \in DOMAIN EndpointConfigs, u \in {"u1", "u3", "%zz"}}

MakeRequestCall ==
    /\ Alive
    /\ Len(attempts) < MaxAttempts
    /\ \E endpointName \in cfg.Endpoints, i \in DOMAIN cfg.BaseUrls :
          \E o \in MakeRequest(cfg, cfg.BaseUrls[i], endpointName) :
             /\ attempts' = Append(attempts, o)
             /\ panic' = IF o.out = "panic" THEN o.msg ELSE panic
    /\ UNCHANGED <<cfg, collectorVars, selectVars, resultsCh, closes, pc, err, now,
                   tickerC, nextTick, tasks, spawned, finished, produced, aggregator,
                   requestCount, lateSpawn, genVars, callerVars>>

\* the detail of the oldest attempt not yet ingested reaches the Collector
CollectCall ==
    /\ Alive
    /\ Len(allRequests) < Len(attempts)
    /\ AppendDetail(attempts[Len(allRequests) + 1].detail)
    /\ UNCHANGED <<cfg, selectVars, runVars, genVars, requestVars, callerVars>>

InitRequest == cfg \in RequestConfigs /\ Fresh /\ Loaded /\ NoCallers

NextRequest == MakeRequestCall \/ CollectCall

SpecRequest == InitRequest /\ [][NextRequest]_vars

-----------------------------------------------------------------------------
(* SpecConcurrent: NumCallers goroutines call in at once, each one of: the
   selections of a request goroutine (selectEndpoint, then selectBaseURL),
   Collector.RecordRequest, Collector.AppendDetail, Collector.GetResults.  A
   call is a sequence of steps (lock, read, write, unlock) that interleave with
   the other callers' steps. *)

Callers == 1..NumCallers

Ops == {"select", "RecordRequest", "AppendDetail", "GetResults"}

\* a goroutine: the call it makes, its position in it, the counter values it
\* read (-1: none yet), the record list it read, the result GetResults computed
Caller(op, at, seenEndpointIdx, seenUrlIdx, local, snapshot) ==
    [op |-> op, at |-> at, seenEndpointIdx |-> seenEndpointIdx,
     seenUrlIdx |-> seenUrlIdx, local |-> local, snapshot |-> snapshot]

NewCaller(op) == Caller(op, "start", -1, -1, <<>>, <<>>)

\* the configuration of the Runner the callers select on
ConcurrentConfig ==
    [IdleConfig EXCEPT !.Endpoints = {"a", "b"}, !.BaseUrls = <<"u1", "u2">>]

\* the detail caller id ingests: a 200 whose duration tells the callers apart
DetailOf(id) ==
    [StatusCode |-> 200, IsError |-> FALSE, ErrorMsg |-> "", Duration |-> id - 1]

\* what GetResults computes from a record list read while another goroutine
\* writes it without the mutex (a data race): no result of any whole list
TornResults == [ZeroResults EXCEPT !.TotalRequests = -1]

MuIgnored == TRUE

\* r.mu.Lock() returns only when no goroutine holds r.mu
MuFree == mu = 0

MutexIgnored == TRUE

\* c.mutex.Lock() returns only when no goroutine holds c.mutex
MutexFree == mutex = 0

\* caller id moves to position at, its other fields as given by c
Step(id, c, at) == callers' = [callers EXCEPT ![id] = [c EXCEPT !.at = at]]

\* r.mu.Lock() at the head of selectEndpoint and of selectBaseURL
AcquireMu ==
    /\ \E id \in DOMAIN callers :
          /\ callers[id].op = "select"
          /\ callers[id].at \in {"start", "lockUrl"}
          /\ MuFree
          /\ mu' = id
          /\ Step(id, callers[id],
                  IF callers[id].at = "start" THEN "readEndpointIdx" ELSE "readUrlIdx")
    /\ UNCHANGED <<cfg, collectorVars, selectVars, runVars, genVars, requestVars, mutex, reruns>>

\* selectEndpoint reads r.endpointIdx
ReadEndpointIdx ==
    /\ \E id \in DOMAIN callers :
          /\ callers[id].at = "readEndpointIdx"
          /\ Step(id, [callers[id] EXCEPT !.seenEndpointIdx = endpointIdx],
                  "writeEndpointIdx")
    /\ UNCHANGED <<cfg, collectorVars, selectVars, runVars, genVars, requestVars, mu,
                   mutex, reruns>>

\* selectEndpoint picks by the value read and stores r.endpointIdx
WriteEndpointIdx ==
    /\ \E id \in DOMAIN callers :
          /\ callers[id].at = "writeEndpointIdx"
          /\ \E o \in SelectEndpoint(cfg, callers[id].seenEndpointIdx) :
                /\ endpointIdx' = o.idx
                /\ picked' = Append(picked, o.name)
          /\ Step(id, callers[id], "unlockEndpoint")
    /\ UNCHANGED <<cfg, collectorVars, urlIdx, pickedUrl, runVars, genVars, requestVars,
                   mu, mutex, reruns>>

\* selectBaseURL reads r.urlIdx
ReadUrlIdx ==
    /\ \E id \in DOMAIN callers :
          /\ callers[id].at = "readUrlIdx"
          /\ Step(id, [callers[id] EXCEPT !.seenUrlIdx = urlIdx], "writeUrlIdx")
    /\ UNCHANGED <<cfg, collectorVars, selectVars, runVars, genVars, requestVars, mu,
                   mutex, reruns>>

\* selectBaseURL picks by the value read and stores r.urlIdx
WriteUrlIdx ==
    /\ \E id \in DOMAIN callers :
          /\ callers[id].at = "writeUrlIdx"
          /\ urlIdx' = SelectBaseURL(cfg, callers[id].seenUrlIdx).idx
          /\ pickedUrl' = Append(pickedUrl, SelectBaseURL(cfg, callers[id].seenUrlIdx).url)
          /\ Step(id, callers[id], "unlockUrl")
    /\ UNCHANGED <<cfg, collectorVars, endpointIdx, picked, runVars, genVars,
                   requestVars, mu, mutex, reruns>>

\* the deferred r.mu.Unlock() of selectEndpoint and of selectBaseURL
ReleaseMu ==
    /\ \E id \in DOMAIN callers :
          /\ callers[id].at \in {"unlockEndpoint", "unlockUrl"}
          /\ mu' = 0
          /\ Step(id, callers[id],
                  IF callers[id].at = "unlockEndpoint" THEN "lockUrl" ELSE "done")
    /\ UNCHANGED <<cfg, collectorVars, selectVars, runVars, genVars, requestVars, mutex, reruns>>

\* c.mutex.Lock() at the head of RecordRequest and of GetResults
AcquireMutex ==
    /\ \E id \in DOMAIN callers :
          /\ callers[id].op \in {"RecordRequest", "GetResults"}
          /\ callers[id].at = "start"
          /\ MutexFree
          /\ mutex' = id
          /\ Step(id, callers[id],
                  IF callers[id].op = "RecordRequest" THEN "load" ELSE "compute")
    /\ UNCHANGED <<cfg, collectorVars, selectVars, runVars, genVars, requestVars, mu, reruns>>

\* c.allRequests = append(c.allRequests, ...): the slice is read; AppendDetail
\* does so at once, RecordRequest once it holds the mutex
LoadRecords ==
    /\ \E id \in DOMAIN callers :
          /\ \/ callers[id].op = "RecordRequest" /\ callers[id].at = "load"
             \/ callers[id].op = "AppendDetail" /\ callers[id].at = "start"
          /\ Step(id, [callers[id] EXCEPT !.local = allRequests], "store")
    /\ UNCHANGED <<cfg, collectorVars, selectVars, runVars, genVars, requestVars, mu,
                   mutex, reruns>>

\* c.allRequests = append(c.allRequests, ...): the slice with the detail
\* appended is stored
StoreRecords ==
    /\ \E id \in DOMAIN callers :
          /\ callers[id].at = "store"
          /\ allRequests' = Append(callers[id].local, DetailOf(id))
          /\ Step(id, callers[id],
                  IF callers[id].op = "RecordRequest" THEN "unlock" ELSE "done")
    /\ UNCHANGED <<cfg, selectVars, runVars, genVars, requestVars, mu, mutex, reruns>>

\* GetResults, holding the mutex, reads c.allRequests and computes the result;
\* while another goroutine is in the middle of an append the read races with it
ComputeResults ==
    /\ \E id \in DOMAIN callers :
          /\ callers[id].at = "compute"
          /\ \E res \in {GetResults(allRequests)}
                        \cup (IF \E q \in DOMAIN callers : callers[q].at = "store"
                              THEN {TornResults} ELSE {}) :
                Step(id, [callers[id] EXCEPT !.local = allRequests,
                                             !.snapshot = <<res>>], "unlock")
    /\ UNCHANGED <<cfg, collectorVars, selectVars, runVars, genVars, requestVars, mu,
                   mutex, reruns>>

\* the deferred c.mutex.Unlock() of RecordRequest and of GetResults
ReleaseMutex ==
    /\ \E id \in DOMAIN callers :
          /\ callers[id].at = "unlock"
          /\ mutex' = 0
          /\ Step(id, callers[id], "done")
    /\ UNCHANGED <<cfg, collectorVars, selectVars, runVars, genVars, requestVars, mu, reruns>>

InitConcurrent ==
    /\ cfg = ConcurrentConfig
    /\ Fresh
    /\ Loaded
    /\ mu = 0
    /\ mutex = 0
    /\ reruns = 0
    /\ callers \in [Callers -> {NewCaller(op) : op \in Ops}]

NextConcurrent ==
    \/ AcquireMu
    \/ ReadEndpointIdx
    \/ WriteEndpointIdx
    \/ ReleaseMu
    \/ ReadUrlIdx
    \/ WriteUrlIdx
    \/ AcquireMutex
    \/ LoadRecords
    \/ StoreRecords
    \/ ComputeResults
    \/ ReleaseMutex

SpecConcurrent == InitConcurrent /\ [][NextConcurrent]_vars

-----------------------------------------------------------------------------
(* Properties *)

\* the indices of the stored records that count as failed
FailedIndices ==
    {i \in DOMAIN allRequests :
        allRequests[i].IsError \/ allRequests[i].StatusCode >= 400}

RECURSIVE SumDurations(_, _)
SumDurations(all, i) ==
    IF i = 0 THEN 0 ELSE SumDurations(all, i - 1) + all[i].Duration

\* the bag of the elements of a sequence
SeqToBag(seq) ==
    [d \in {seq[i] : i \in DOMAIN seq} |-> Cardinality({i \in DOMAIN seq : seq[i] = d})]

\* C1: for every sequence of ingested records the snapshot has SuccessfulRequests +
\* FailedRequests = TotalRequests = the number of records, and FailedRequests is the
\* number of records with IsError or StatusCode >= 400.
C1_CountsPartition ==
    LET res == GetResults(allRequests) IN
    /\ res.SuccessfulRequests + res.FailedRequests = res.TotalRequests
    /\ res.TotalRequests = Len(allRequests)
    /\ res.FailedRequests = Cardinality(FailedIndices)

\* three records ingested, one with status 399 and no error, one with status 400
C1_Witness ==
    /\ Len(allRequests) = 3
    /\ \E i, j \in DOMAIN allRequests :
          /\ allRequests[i].StatusCode = 399 /\ ~allRequests[i].IsError
          /\ allRequests[j].StatusCode = 400
    /\ GetResults(allRequests).FailedRequests = 1

C3_RoundRobinFixedOrder ==
    cfg.Strategy = "roundRobin" =>
        /\ \E names \in Perms(cfg.Endpoints) :
              \A i \in DOMAIN picked :
                  picked[i] = names[((i - 1) % Len(names)) + 1]
        /\ (cfg.Endpoints = {"a", "b", "c"} /\ Len(picked) = 6)
              => picked = <<"a", "b", "c", "a", "b", "c">>

\* C4: under roundRobin with n endpoints, after k*n successive selectEndpoint calls
\* every endpoint has been selected exactly k times.
C4_RoundRobinEqualShares ==
    LET n == Cardinality(cfg.Endpoints) IN
    (cfg.Strategy = "roundRobin" /\ Len(picked) > 0 /\ Len(picked) % n = 0) =>
        \A e \in cfg.Endpoints :
            Cardinality({i \in DOMAIN picked : picked[i] = e}) = Len(picked) \div n

\* C5: when a fixed-mode Run has returned nil, the Collector holds exactly the
\* details the request goroutines produced, one per goroutine started; none is
\* left in the channel or with a goroutine, and GetResults reports that total.
C5_EveryRecordCollected ==
    (pc = "returned" /\ err = "nil") =>
        /\ SeqToBag(allRequests) = produced
        /\ Len(allRequests) = spawned
        /\ resultsCh = <<>>
        /\ tasks = EmptyBag
        /\ GetResults(allRequests).TotalRequests = spawned

\* a run that returned nil after more goroutines than the channel holds
C5_Witness ==
    /\ pc = "returned" /\ err = "nil"
    /\ spawned > ChanCap
    /\ \E i, j \in DOMAIN allRequests : allRequests[i].IsError /\ ~allRequests[j].IsError

\* C6: the result channel is closed at most once, only after every request
\* goroutine started has completed its send, and no goroutine sends on it (or
\* closes it) once it is closed.
C6_CloseAfterAllSends ==
    /\ closes <= 1
    /\ closes = 1 =>
          /\ pc \in {"collectorWait", "returned"}
          /\ \A t \in BagToSet(tasks) : t.at \in {"count", "countWrite"}
          /\ Len(resultsCh) + Len(allRequests) = spawned
    /\ panic \notin {"send on closed channel", "close of closed channel"}

\* the channel is closed while it still buffers details of a run of several goroutines
C6_Witness ==
    /\ closes = 1
    /\ spawned > ChanCap
    /\ Len(resultsCh) = ChanCap

InvalidFixed ==
    /\ cfg.Mode = "fixed"
    /\ \/ cfg.RequestsPerSecond <= 0
       \/ cfg.Endpoints = {}
       \/ Len(cfg.BaseUrls) = 0

NothingDispatched ==
    /\ spawned = 0
    /\ tasks = EmptyBag
    /\ endpointIdx = 0
    /\ urlIdx = 0
    /\ allRequests = <<>>
    /\ resultsCh = <<>>
    /\ closes = 0

\* C7: in fixed mode with requestsPerSecond <= 0, no endpoint or no base URL, Run
\* returns an error, starts no request goroutine, advances no selection counter
\* and ingests no record.
C7_InvalidFixedFailsFast ==
    InvalidFixed =>
        /\ NothingDispatched
        /\ panic = "none"
        /\ pc \in {"idle", "returned"}
        /\ pc = "returned" => err \notin {"none", "nil"}

\* Run has returned the rate error for a rate of 0 with endpoints and base URLs set
C7_Witness ==
    /\ pc = "returned"
    /\ cfg.Mode = "fixed"
    /\ cfg.RequestsPerSecond = 0
    /\ cfg.Endpoints # {} /\ Len(cfg.BaseUrls) > 0
    /\ err = "requestsPerSecond must be positive for fixed mode"

\* C8: with mode "ramp" or any mode other than "fixed", Run returns an error, starts
\* neither a request goroutine nor the aggregator, and leaves the collector, the
\* channel and both selection counters as they were.
C8_OtherModesRejected ==
    cfg.Mode # "fixed" =>
        /\ NothingDispatched
        /\ aggregator = "off"
        /\ panic = "none"
        /\ pc \in {"idle", "returned"}
        /\ pc = "returned" =>
              err = (IF cfg.Mode = "ramp" THEN "ramp up mode not yet implemented"
                     ELSE "unknown mode")

\* Run has returned in ramp mode, on a configuration that fixed mode would run
C8_Witness ==
    /\ pc = "returned"
    /\ cfg.Mode = "ramp"
    /\ ValidateFixed(cfg) = "nil"
    /\ cfg.DurationSeconds > 0
    /\ err = "ramp up mode not yet implemented"

\* C9: in fixed mode a request goroutine is started only at a tick handled while
\* the elapsed time is below the configured duration, so the number started never
\* exceeds requestsPerSecond * durationSeconds, and is zero when durationSeconds <= 0.
C9_SpawnBound ==
    (cfg.Mode = "fixed" /\ ValidateFixed(cfg) = "nil") =>
        /\ ~lateSpawn
        /\ cfg.DurationSeconds <= 0 => spawned = 0
        /\ cfg.DurationSeconds > 0 =>
              spawned <= cfg.RequestsPerSecond * cfg.DurationSeconds

ValidFixed == cfg.Mode = "fixed" /\ ValidateFixed(cfg) = "nil"

RunCompleted ==
    /\ pc = "returned" /\ err = "nil"
    /\ closes = 1
    /\ tasks = EmptyBag /\ finished = spawned
    /\ aggregator = "done"

GenerationFailure ==
    "URL building failed: failed to generate path parameter id: no values provided for choice generator"

FailureRecord ==
    [StatusCode |-> 0, IsError |-> TRUE, ErrorMsg |-> GenerationFailure,
     Duration |-> AttemptDuration]

\* the request goroutines that have not yet returned from makeRequest
BeforeRecord ==
    {t \in BagToSet(tasks) : t.at \in {"selectEndpoint", "selectBaseURL", "makeRequest"}}

RECURSIVE BagCount(_, _)
\* the number of copies in bag B of the elements of S
BagCount(B, S) ==
    IF S = {} THEN 0
    ELSE LET t == CHOOSE t \in S : TRUE IN CopiesIn(t, B) + BagCount(B, S \ {t})

\* C11: an attempt whose parameter generation fails (endpoint a: a path parameter
\* that is a choice with no values) returns exactly one record, with StatusCode 0,
\* IsError and a non-empty ErrorMsg, and leaves the run as it was: the control
\* loop, the other goroutines and the counters are untouched, no panic is
\* raised; every attempt past makeRequest has produced exactly one record; and
\* under fair scheduling the run goes on to return nil with that record collected.
C11_GenerationFailureRecorded ==
    /\ [][produced' # produced =>
            LET t == CHOOSE t \in BagToSet(tasks (-) tasks') : TRUE
                d == CHOOSE d \in BagToSet(produced' (-) produced) : TRUE
            IN /\ BagCardinality(produced') = BagCardinality(produced) + 1
               /\ t.at = "makeRequest"
               /\ t.endpointName = "a" => d = FailureRecord
               /\ d.IsError => (d.StatusCode = 0 /\ d.ErrorMsg # "")
               /\ tasks' = Move(t, Task("send", "", "", d, 0))
               /\ panic' = "none"
               /\ UNCHANGED <<pc, err, now, tickerC, nextTick, spawned, finished,
                              resultsCh, closes, allRequests, aggregator>>]_vars
    /\ [](BagCardinality(produced) + BagCount(tasks, BeforeRecord) = spawned)
    /\ (BagIn(FailureRecord, produced)
           ~> (RunCompleted /\ \E i \in DOMAIN allRequests : allRequests[i] = FailureRecord))

\* a run returned nil in which a failed generation was recorded and a request to
\* the other endpoint, started later, was answered
C11_Witness ==
    /\ pc = "returned" /\ err = "nil"
    /\ spawned >= 3
    /\ \E i, j \in DOMAIN allRequests :
          /\ i < j
          /\ allRequests[i] = FailureRecord
          /\ allRequests[j].StatusCode = 200 /\ ~allRequests[j].IsError

\* the steps of makeRequest in the order of the code
AllSteps == <<"buildURL", "addQueryParams", "generateRequestBody", "NewRequest", "Do">>

\* the endpoints with query parameters, and those with body parameters
WithQuery == {"c", "d", "h"}
WithBody == {"c", "d", "e", "h", "j"}

\* the steps an attempt on the endpoint goes through when none fails
Applicable(endpointName) ==
    SelectSeq(AllSteps, LAMBDA s : /\ s = "addQueryParams" => endpointName \in WithQuery
                                   /\ s = "generateRequestBody" => endpointName \in WithBody)

NoFailure == [step |-> "none", msg |-> ""]

\* the first step of an attempt that fails before any HTTP call, and the message
\* recorded, as the definitions of the endpoint and the base URL determine them
ExpectedFailure(endpointName, baseURL) ==
    CASE endpointName = "a" -> [step |-> "buildURL", msg |-> GenerationFailure]
      [] endpointName = "h" ->
            [step |-> "buildURL",
             msg |-> "URL building failed: failed to get path parameter generator for id: choice generator requires 'values' field"]
      [] endpointName \in {"c", "d"} /\ baseURL = "%zz" ->
            [step |-> "addQueryParams",
             msg |-> "Query params failed: failed to parse URL: invalid URL escape"]
      [] endpointName = "d" /\ baseURL # "%zz" ->
            [step |-> "addQueryParams",
             msg |-> "Query params failed: failed to generate query parameter page: referenced generator 'missing' not found"]
      [] endpointName = "e" ->
            [step |-> "generateRequestBody",
             msg |-> "Body generation failed: failed to get body parameter generator: unsupported generator type: uuid"]
      [] endpointName = "j" ->
            [step |-> "generateRequestBody",
             msg |-> "Body generation failed: json: unsupported type: map[interface {}]interface {}"]
      [] endpointName = "f" ->
            [step |-> "NewRequest", msg |-> "Request creation failed: net/http: invalid method"]
      [] endpointName \in {"b", "g"} /\ baseURL = "%zz" ->
            [step |-> "NewRequest", msg |-> "Request creation failed: parse: invalid URL escape"]
      [] OTHER -> NoFailure

\* the prefix of a sequence up to the first occurrence of x
UpTo(seq, x) ==
    SubSeq(seq, 1, CHOOSE i \in DOMAIN seq : seq[i] = x /\ \A j \in 1..(i - 1) : seq[j] # x)

\* C12: makeRequest short-circuits.  When path-parameter, query-parameter or body
\* generation or the construction of the request fails, the record returned has
\* StatusCode 0, IsError and the failure's message, the steps evaluated end with
\* the failing one and no HTTP call is made; otherwise every applicable step is
\* evaluated once, one HTTP call is made, and a transport failure gives a record
\* of the same shape.  No attempt makes more than one HTTP call.
C12_ShortCircuit ==
    LET endpointName == CHOOSE e \in cfg.Endpoints : TRUE
        baseURL == cfg.BaseUrls[1]
        expected == ExpectedFailure(endpointName, baseURL)
    IN \A i \in DOMAIN attempts :
          LET o == attempts[i] IN
          o.out = "detail" =>
             /\ o.calls <= 1
             /\ o.calls = Cardinality({k \in DOMAIN o.steps : o.steps[k] = "Do"})
             /\ IF expected # NoFailure
                THEN /\ o.steps = UpTo(Applicable(endpointName), expected.step)
                     /\ o.calls = 0
                     /\ o.detail = [StatusCode |-> 0, IsError |-> TRUE,
                                    ErrorMsg |-> expected.msg, Duration |-> AttemptDuration]
                ELSE /\ o.steps = Applicable(endpointName)
                     /\ o.calls = 1
                     /\ o.resp = 0 =>
                           /\ o.detail.StatusCode = 0 /\ o.detail.IsError
                           /\ o.detail.ErrorMsg \in TransportErrors

\* an attempt whose query parameter failed after the path was built (the body
\* would fail too), and one that ended in a transport failure
C12_Witness ==
    \/ /\ cfg.Endpoints = {"d"} /\ cfg.BaseUrls = <<"u3">>
       /\ Len(attempts) = MaxAttempts
       /\ attempts[1].steps = <<"buildURL", "addQueryParams">>
       /\ attempts[1].calls = 0
       /\ allRequests # <<>> /\ allRequests[1].IsError
    \/ /\ cfg.Endpoints = {"c"} /\ cfg.BaseUrls = <<"u3">>
       /\ Len(attempts) = MaxAttempts
       /\ attempts[1].calls = 1 /\ attempts[1].detail.ErrorMsg = "timeout"
       /\ attempts[2].resp = 200

RECURSIVE SumCounts(_, _)
\* the sum of the counts a histogram holds for the keys in S
SumCounts(hist, S) ==
    IF S = {} THEN 0
    ELSE LET k == CHOOSE k \in S : TRUE IN hist[k] + SumCounts(hist, S \ {k})

\* C13: whenever a response is received, makeRequest returns a record with IsError
\* false, an empty ErrorMsg and the response's status, whatever the status; and
\* GetResults counts such a record with status >= 400 as failed, counts its
\* status in StatusCodesCount and adds nothing to ErrorDetails for it.
C13_ResponseRecorded ==
    /\ \A i \in DOMAIN attempts :
          (attempts[i].out = "detail" /\ attempts[i].resp # 0) =>
              attempts[i].detail = [StatusCode |-> attempts[i].resp, IsError |-> FALSE,
                                    ErrorMsg |-> "", Duration |-> AttemptDuration]
    /\ LET res == GetResults(allRequests)
           http == {i \in DOMAIN allRequests :
                       ~allRequests[i].IsError /\ allRequests[i].StatusCode >= 400}
           errs == {i \in DOMAIN allRequests : allRequests[i].IsError}
       IN /\ res.FailedRequests = Cardinality(http) + Cardinality(errs)
          /\ \A i \in http :
                /\ allRequests[i].StatusCode \in DOMAIN res.StatusCodesCount
                /\ res.StatusCodesCount[allRequests[i].StatusCode]
                      = Cardinality({j \in DOMAIN allRequests :
                                        allRequests[j].StatusCode = allRequests[i].StatusCode})
          /\ "" \notin DOMAIN res.ErrorDetails
          /\ SumCounts(res.ErrorDetails, DOMAIN res.ErrorDetails)
                = Cardinality({i \in errs : allRequests[i].ErrorMsg # ""})

\* a 404 and a 500 response were received and their records collected
C13_Witness ==
    /\ Len(allRequests) = 2
    /\ attempts[1].resp = 404 /\ attempts[2].resp = 500
    /\ allRequests[1].StatusCode = 404 /\ ~allRequests[1].IsError
    /\ GetResults(allRequests).FailedRequests = 2
    /\ DOMAIN GetResults(allRequests).ErrorDetails = {}


\* the registry of the configuration
Registry == cfg.ParameterGenerators

\* the definition evaluated is of the given type
DefType(type) == "type" \in DOMAIN evalDef /\ evalDef.type = type

\* the error generateRequestBody returns when the generator's Generate returns msg
GenerationError(msg) == Failed("failed to generate body: " \o msg)

\* C14: no step panics the process: creating and evaluating a generator yields a
\* value or an error, whatever the definition (a randomString of negative length,
\* weights summing to less than 0.001, bounds at the integer extremes).
C14_NoStepPanics ==
    /\ panic = "none"
    /\ \A i \in DOMAIN genOuts : genOuts[i].out \in {"value", "error"}

RECURSIVE RefTargets(_)
\* the names a definition refers to through $ref, in itself or in its children
RefTargets(def) ==
    LET Children(key) ==
            IF key \notin DOMAIN def THEN <<>>
            ELSE IF "goType" \in DOMAIN def[key] THEN def[key].m ELSE def[key]
        InMap(m) == UNION {RefTargets(m[k]) : k \in DOMAIN m}
    IN IF "ref" \in DOMAIN def THEN {def.ref}
       ELSE InMap(Children("properties")) \cup InMap(Children("parameters"))
            \cup (IF "elementGenerator" \in DOMAIN def
                  THEN RefTargets(def.elementGenerator) ELSE {})

RECURSIVE Reach(_, _, _)
\* the names reached from the set names in at most n further reference steps
Reach(registry, names, n) ==
    IF n = 0 THEN names
    ELSE Reach(registry,
               names \cup UNION {RefTargets(registry[m]) : m \in names \cap DOMAIN registry},
               n - 1)

\* a named definition reaches itself through a chain of references
Cyclic(registry) ==
    \E name \in DOMAIN registry :
        name \in Reach(registry, RefTargets(registry[name]), Cardinality(DOMAIN registry))

\* C15: LoadConfig returns an error for a registry in which a named definition
\* reaches itself through $ref references, and no evaluation of a definition
\* against a registry it accepted recurses without end.
C15_CyclesRejected ==
    /\ loadErr = "nil" => ~Cyclic(Registry)
    /\ \A i \in DOMAIN genOuts : genOuts[i] # Panicked("stack overflow")

\* what evaluating a generator built anew from the named definition ends in, as
\* generateRequestBody reports it
FreshOutcomes(name) ==
    UNION {IF r.ok
           THEN LET outs == Generate(r.gen, Registry, 1)
                IN Panics(outs) \cup {GenerationError(m) : m \in Errors(outs)}
                   \cup {Returned(v) : v \in Values(outs)}
           ELSE {GenerationError("failed to create referenced generator '" \o name
                                 \o "': " \o r.msg)} :
           r \in CreateGeneratorFromDef(Registry[name])}

\* C16: evaluating a reference returns the not-found error when the name is
\* absent from the registry; otherwise each evaluation ends as an evaluation of a
\* generator built anew from the named definition does: a reference to
\* formattedInt(1, 1, "user_{}") gives "user_1", one to randomInt(0, 1) gives 0
\* or 1 (or the error of the random source) each time.
C16_ReferenceEvaluatedFresh ==
    "ref" \in DOMAIN evalDef =>
        \A i \in DOMAIN genOuts :
            LET o == genOuts[i]
                name == evalDef.ref
            IN /\ name \notin DOMAIN Registry =>
                     o = GenerationError("referenced generator '" \o name \o "' not found")
               /\ name \in DOMAIN Registry => o \in FreshOutcomes(name)
               /\ (name = "x" /\ Registry = GenRegistry) => o = Returned(StrV("user_1"))
               /\ (name = "r" /\ Registry = GenRegistry) =>
                     o \in {Returned(IntV(0)), Returned(IntV(1)),
                            GenerationError("failed to generate random int: rand.Reader")}

\* two evaluations of a reference to randomInt(0, 1) drew different values
C16_Witness ==
    /\ evalDef = [ref |-> "r"]
    /\ genOuts = <<Returned(IntV(0)), Returned(IntV(1))>>

\* C17: randomInt(min, max) evaluates to min when min >= max and otherwise to an
\* integer v with min <= v <= max (the read of the random source may fail).
C17_RandomIntInRange ==
    (DefType("randomInt") /\ DOMAIN evalDef = {"type", "min", "max"}) =>
        \A i \in DOMAIN genOuts :
            LET o == genOuts[i] IN
            IF evalDef.min >= evalDef.max THEN o = Returned(IntV(evalDef.min))
            ELSE \/ o = GenerationError("failed to generate random int: rand.Reader")
                 \/ /\ o.out = "value" /\ o.val.kind = "int"
                    /\ evalDef.min <= o.val.n /\ o.val.n <= evalDef.max

\* the smaller and the larger of two integers
Min2(a, b) == IF a <= b THEN a ELSE b

\* C18: array(minLength, maxLength, elementSpec) evaluates to a sequence of L
\* element values with min(minLength, maxLength) <= L <= maxLength, or fails with
\* the element's error.
C18_ArrayLength ==
    (DefType("array") /\ DOMAIN evalDef = {"type", "minLength", "maxLength", "elementGenerator"}) =>
        \A i \in DOMAIN genOuts :
            LET o == genOuts[i] IN
            \/ o.out = "error"
            \/ /\ o.out = "value" /\ o.val.kind = "list"
               /\ Min2(evalDef.minLength, evalDef.maxLength) <= Len(o.val.items)
               /\ Len(o.val.items) <= evalDef.maxLength
               /\ evalDef.elementGenerator = StaticOne =>
                     \A k \in DOMAIN o.val.items : o.val.items[k] = IntV(1)

\* the value the cumulative walk over weights returns for the number x
WeightedWalk2(values, weights, x) ==
    LET hits == {i \in DOMAIN weights : SumSeq(weights, i) >= x}
    IN IF hits = {} THEN values[Len(values)]
       ELSE values[CHOOSE i \in hits : \A j \in hits : i <= j]

\* C19: choice(values, weights) fails on empty values; with weights absent or of
\* another length it returns an element of values; with weights of sum W > 0 it
\* returns the value the cumulative walk gives for some x with 0 <= x < W; with
\* W <= 0 it returns values[0] (the read of the random source may fail).
C19_ChoiceSemantics ==
    (DefType("choice") /\ "values" \in DOMAIN evalDef) =>
        \A i \in DOMAIN genOuts :
            LET o == genOuts[i]
                values == evalDef.values
                weights == IF "weights" \in DOMAIN evalDef THEN evalDef.weights.items ELSE <<>>
                W == SumSeq(weights, Len(weights))
            IN IF values = <<>> THEN o.out = "error"
               ELSE IF Len(weights) = 0 \/ Len(weights) # Len(values)
               THEN \/ o = GenerationError("failed to generate choice: rand.Reader")
                    \/ o.out = "value" /\ \E k \in DOMAIN values : o.val = values[k]
               ELSE IF W <= 0 THEN o = Returned(values[1])
               ELSE \/ o = GenerationError("failed to generate weighted choice: rand.Reader")
                    \/ /\ o.out = "value"
                       /\ \E x \in 0..(W - 1) : o.val = WeightedWalk2(values, weights, x)

\* the property names a definition declares: of the definition evaluated, or of
\* the named definition it refers to
DeclaredNames ==
    LET def == IF "ref" \in DOMAIN evalDef THEN Registry[evalDef.ref] ELSE evalDef
    IN IF "properties" \notin DOMAIN def THEN {}
       ELSE IF "goType" \in DOMAIN def.properties THEN DOMAIN def.properties.m
       ELSE DOMAIN def.properties

\* the definition evaluated is an object, inline or named and reached by $ref
IsObjectDef ==
    \/ DefType("object")
    \/ /\ "ref" \in DOMAIN evalDef /\ evalDef.ref \in DOMAIN Registry
       /\ Registry[evalDef.ref].type = "object"

\* C20: evaluating an object definition, inline or registered and reached
\* through $ref, returns a mapping whose keys are exactly the property names the
\* definition declares, or an error.
C20_ObjectKeys ==
    IsObjectDef =>
        \A i \in DOMAIN genOuts :
            LET o == genOuts[i] IN
            \/ o.out = "error"
            \/ /\ o.out = "value" /\ o.val.kind = "map"
               /\ DOMAIN o.val.fields = DeclaredNames


\* the outcomes of the children of a template or object definition, each child
\* built and evaluated on its own
ChildOutcomes(children) ==
    [k \in DOMAIN children |->
        Generate((CHOOSE r \in CreateGeneratorWithConfig(children[k]) : r.ok).gen,
                 Registry, 0)]

\* a template's text with every placeholder that has a child replaced, all at
\* once, by the string form of the child's value
ReplacedAtOnce(template, vals) ==
    [j \in DOMAIN template |->
        IF \E k \in DOMAIN vals : template[j] = "{{" \o k \o "}}"
        THEN FormatV(vals[CHOOSE k \in DOMAIN vals : template[j] = "{{" \o k \o "}}"])
        ELSE template[j]]

\* C21: evaluating a template returns its text with each placeholder that has a
\* child replaced by the string form of that child's value, whatever the order
\* in which the children are substituted, also when a child's value holds the
\* text of another child's placeholder; or the error of a child.
C21_TemplateOrderIndependent ==
    (DefType("template") /\ "template" \in DOMAIN evalDef) =>
        \A i \in DOMAIN genOuts :
            LET o == genOuts[i]
                outs == ChildOutcomes(ChildDefs(evalDef, "parameters"))
            IN \/ o.out = "error"
               \/ /\ o.out = "value"
                  /\ \E vals \in ChildValues(outs) :
                        o.val = StrV(JoinTokens(ReplacedAtOnce(evalDef.template, vals), 1))


\* the sum of the weights the weight map holds for the configured endpoints
ConfiguredWeight ==
    SumCounts(cfg.Weights, cfg.Endpoints \cap DOMAIN cfg.Weights)

\* the weighted strategy cannot draw: no weights, or weights summing to zero
MustFallBack ==
    /\ cfg.Strategy = "weighted"
    /\ DOMAIN cfg.Weights = {} \/ ConfiguredWeight = 0

C23_BaseURLRoundRobin ==
    /\ [](/\ urlIdx = Len(pickedUrl)
          /\ \A i \in DOMAIN pickedUrl :
                pickedUrl[i] = cfg.BaseUrls[((i - 1) % Len(cfg.BaseUrls)) + 1])
    /\ [][pickedUrl' # pickedUrl =>
            /\ urlIdx' = urlIdx + 1
            /\ UNCHANGED <<endpointIdx, picked, cfg, collectorVars, runVars>>]_vars
    /\ [][picked' # picked => UNCHANGED <<urlIdx, pickedUrl>>]_vars

\* under the random strategy, base URLs were selected between endpoint
\* selections and went once round the list and on
C23_Witness ==
    /\ cfg.Strategy = "random"
    /\ cfg.BaseUrls = <<"u1", "u2">>
    /\ pickedUrl = <<"u1", "u2", "u1">>
    /\ Len(picked) = 3
    /\ endpointIdx = 0


\* the goroutines that make the selections of a request
Selectors == {id \in DOMAIN callers : callers[id].op = "select"}

(* C24: when several goroutines call selectEndpoint (round-robin) and
   selectBaseURL at once, each read-then-increment of a counter is atomic: no
   two goroutines read the same value of endpointIdx, none read the same value
   of urlIdx, the goroutine that holds r.mu is the only one between its read
   and its unlock, and once all N goroutines have returned endpointIdx = N and
   urlIdx = N. *)
C24_SelectionAtomic ==
    /\ \A p, q \in Selectors :
          p # q =>
            /\ (callers[p].seenEndpointIdx # -1 =>
                   callers[p].seenEndpointIdx # callers[q].seenEndpointIdx)
            /\ (callers[p].seenUrlIdx # -1 =>
                   callers[p].seenUrlIdx # callers[q].seenUrlIdx)
    /\ \A p \in Selectors :
          callers[p].at \in {"readEndpointIdx", "writeEndpointIdx", "unlockEndpoint",
                             "readUrlIdx", "writeUrlIdx", "unlockUrl"} => mu = p
    /\ (\A p \in Selectors : callers[p].at = "done") =>
          /\ endpointIdx = Cardinality(Selectors)
          /\ urlIdx = Cardinality(Selectors)

\* three goroutines have selected, in an order that is not their own, and their
\* base-URL selections ran in yet another order
C24_Witness ==
    /\ Selectors = Callers
    /\ \A p \in Callers : callers[p].at = "done"
    /\ callers[3].seenEndpointIdx = 0
    /\ callers[1].seenEndpointIdx = 2
    /\ callers[1].seenUrlIdx = 0
    /\ endpointIdx = NumCallers
    /\ urlIdx = NumCallers


\* no goroutine is in the middle of an append to c.allRequests
NoAppendInProgress == \A q \in DOMAIN callers : callers[q].at # "store"

(* C25: GetResults on a Collector that holds no record returns a result whose
   counts and durations are all zero and whose two histograms, StatusCodesCount
   and ErrorDetails, are made maps with no key. *)
C25_EmptyResults ==
    [][\A id \in DOMAIN callers :
          (/\ callers[id].at = "compute"
           /\ callers'[id].at = "unlock"
           /\ allRequests = <<>>
           /\ NoAppendInProgress)
          => LET res == callers'[id].snapshot[1] IN
             /\ res.TotalRequests = 0
             /\ res.SuccessfulRequests = 0
             /\ res.FailedRequests = 0
             /\ res.TotalDuration = 0
             /\ res.AvgDuration = 0
             /\ res.MinDuration = 0
             /\ res.MaxDuration = 0
             /\ DOMAIN res.StatusCodesCount = {}
             /\ DOMAIN res.ErrorDetails = {}]_vars

\* GetResults has returned from a Collector nothing was recorded in, while the
\* other goroutines have not begun
C25_Witness ==
    /\ callers[2].op = "GetResults"
    /\ callers[2].at = "done"
    /\ callers[2].local = <<>>
    /\ callers[2].snapshot = <<ZeroResults>>
    /\ callers[1].op = "RecordRequest"
    /\ callers[1].at = "start"
    /\ allRequests = <<>>


\* the goroutines that call RecordRequest
Recorders == {id \in DOMAIN callers : callers[id].op = "RecordRequest"}

\* the goroutines that call AppendDetail
Appenders == {id \in DOMAIN callers : callers[id].op = "AppendDetail"}

(* C26: when N goroutines each call RecordRequest once, concurrently, and all
   have returned, the Collector holds exactly N records, one per call and none
   lost, and GetResults reports TotalRequests = N. *)
C26_ConcurrentRecordRequest ==
    (/\ Appenders = {}
     /\ \A p \in Recorders : callers[p].at = "done")
    => /\ Len(allRequests) = Cardinality(Recorders)
       /\ \A p \in Recorders :
             Cardinality({i \in DOMAIN allRequests : allRequests[i] = DetailOf(p)}) = 1
       /\ GetResults(allRequests).TotalRequests = Cardinality(Recorders)

\* three goroutines have recorded, the third one first and the first one last
C26_Witness ==
    /\ Recorders = Callers
    /\ \A p \in Callers : callers[p].at = "done"
    /\ allRequests = <<DetailOf(3), DetailOf(2), DetailOf(1)>>
    /\ GetResults(allRequests).TotalRequests = NumCallers


\* the goroutines that call GetResults
Snapshotters == {id \in DOMAIN callers : callers[id].op = "GetResults"}

\* the records of a list, as a set
RecordsOf(all) == {all[i] : i \in DOMAIN all}

(* C27: GetResults is mutually exclusive with every ingestion operation,
   RecordRequest and AppendDetail alike: while a goroutine is inside GetResults
   no goroutine is in the middle of an append, and every result GetResults
   returns is the result of a list of whole, fully appended records. *)
C27_SnapshotExclusive ==
    /\ \A g \in Snapshotters :
          callers[g].at \in {"compute", "unlock"} => NoAppendInProgress
    /\ \A g \in Snapshotters :
          callers[g].snapshot # <<>> =>
            /\ callers[g].snapshot[1] = GetResults(callers[g].local)
            /\ RecordsOf(callers[g].local) \subseteq {DetailOf(p) : p \in Callers}

(* GetResults excludes RecordRequest: on a Collector no goroutine calls
   AppendDetail on, no append is in progress
   while a goroutine is inside GetResults, and every result is that of a list
   of whole records. *)
C27_ExcludesRecordRequest ==
    Appenders = {} => C27_SnapshotExclusive


(* C28: during a run the Collector's record list is written only by the
   collector goroutine, one record at a time through AppendDetail: every step
   that changes the list is a step of the running collector goroutine that
   appends the one detail it takes off the result channel, no request
   goroutine moves in that step, and the Collector's mutex, which only
   RecordRequest and GetResults take, is never held. *)
C28_SingleWriter ==
    /\ [][allRequests' # allRequests =>
            /\ aggregator = "running"
            /\ aggregator' = "running"
            /\ resultsCh # <<>>
            /\ allRequests' = Append(allRequests, Head(resultsCh))
            /\ resultsCh' = Tail(resultsCh)
            /\ UNCHANGED <<tasks, spawned, finished, requestCount, pc, callerVars>>]_vars
    /\ [](mutex = 0 /\ callers = <<>>)

\* mid-run: the collector goroutine has appended one record and the next is in
\* the channel, while a request goroutine is still on its way
C28_Witness ==
    /\ aggregator = "running"
    /\ Len(allRequests) = 1
    /\ resultsCh # <<>>
    /\ closes = 0
    /\ \E t \in BagToSet(tasks) : t.at = "send"


\* the positions of the records with status code c
WithStatus(all, c) == {i \in DOMAIN all : all[i].StatusCode = c}

(* C29: for every sequence of ingested records, StatusCodesCount in GetResults'
   result maps each status code c, 0 included, to exactly the number of
   records whose StatusCode is c, has no key whose count is zero (a code no
   record has is not a key), and its counts sum to TotalRequests. *)
C29_StatusHistogram ==
    LET res == GetResults(allRequests)
        hist == res.StatusCodesCount
    IN /\ DOMAIN hist = {allRequests[i].StatusCode : i \in DOMAIN allRequests}
       /\ \A c \in DOMAIN hist :
             /\ hist[c] = Cardinality(WithStatus(allRequests, c))
             /\ hist[c] > 0
       /\ SumCounts(hist, DOMAIN hist) = res.TotalRequests
       /\ res.TotalRequests = Len(allRequests)

\* three records ingested: two with status 200 and one transport error, whose
\* status code is 0
C29_Witness ==
    /\ Len(allRequests) = 3
    /\ Cardinality(WithStatus(allRequests, 200)) = 2
    /\ Cardinality(WithStatus(allRequests, 0)) = 1
    /\ GetResults(allRequests).StatusCodesCount = (0 :> 1) @@ (200 :> 2)


\* the positions of the records whose error message is m
WithMessage(all, m) == {i \in DOMAIN all : all[i].ErrorMsg = m}

\* the positions of the records GetResults counts as failed
FailedPositions(all) == {i \in DOMAIN all : all[i].IsError \/ all[i].StatusCode >= 400}

(* C30, as stated: for every sequence of ingested records, ErrorDetails maps
   each non-empty error message m to exactly the number of records whose
   ErrorMsg is m, never has the empty string as a key, and its counts sum to at
   most FailedRequests. *)
C30_ErrorHistogramAllRecords ==
    LET res == GetResults(allRequests)
        hist == res.ErrorDetails
    IN /\ "" \notin DOMAIN hist
       /\ \A i \in DOMAIN allRequests :
             allRequests[i].ErrorMsg # "" =>
               /\ allRequests[i].ErrorMsg \in DOMAIN hist
               /\ hist[allRequests[i].ErrorMsg]
                    = Cardinality(WithMessage(allRequests, allRequests[i].ErrorMsg))
       /\ SumCounts(hist, DOMAIN hist) <= res.FailedRequests

(* C30, amended: for every sequence of ingested records, ErrorDetails maps
   each non-empty error message m carried by a failed record (IsError, or
   status >= 400) to exactly the number of failed records whose ErrorMsg is m;
   a message only records that are not failed carry is not a key, the empty
   string is never a key, and the counts sum to at most FailedRequests. *)
C30_ErrorHistogram ==
    LET res == GetResults(allRequests)
        hist == res.ErrorDetails
        failed == FailedPositions(allRequests)
    IN /\ DOMAIN hist = {allRequests[i].ErrorMsg : i \in failed} \ {""}
       /\ \A m \in DOMAIN hist :
             hist[m] = Cardinality(WithMessage(allRequests, m) \cap failed)
       /\ SumCounts(hist, DOMAIN hist) <= res.FailedRequests
       /\ res.FailedRequests = Cardinality(failed)

\* three records carry the message "note": a 200 that is not failed and two
\* 400s, which are; the histogram counts the two
C30_Witness ==
    /\ Len(allRequests) = 3
    /\ Cardinality(WithMessage(allRequests, "note")) = 3
    /\ Cardinality(FailedPositions(allRequests)) = 2
    /\ GetResults(allRequests).ErrorDetails = ("note" :> 2)


(* C31: ingesting a record through AppendDetail and ingesting its status,
   duration, error flag and message through RecordRequest lead to the same
   snapshot: every ingestion step is, for the same record, a step of either
   path (so sequences ingested by any mix of the two give the same list), and
   the snapshot after it is that of the list with the record appended. *)
C31_PathsEquivalent ==
    [][\A d \in MetricDetails :
          /\ RecordRequest(d.StatusCode, d.Duration, d.IsError, d.ErrorMsg)
               <=> (Len(allRequests) < MaxRecords /\ AppendDetail(d))
          /\ AppendDetail(d) =>
               GetResults(allRequests') = GetResults(Append(allRequests, d))]_vars

\* two records ingested, a timeout and a 400 with a message; the state is the
\* same whichever path took each of them
C31_Witness ==
    /\ Len(allRequests) = 2
    /\ allRequests[1].ErrorMsg = "timeout"
    /\ allRequests[2].StatusCode = 400
    /\ allRequests[2].ErrorMsg = "note"
    /\ GetResults(allRequests).ErrorDetails = ("timeout" :> 1) @@ ("note" :> 1)


\* list a is an initial part of list b
IsPrefix(a, b) == Len(a) <= Len(b) /\ \A i \in DOMAIN a : b[i] = a[i]

(* C32: GetResults leaves the record list unchanged, and two successive calls
   with no ingestion in between return equal results; the record list only
   grows: every operation keeps every stored record as it is, in its place,
   and TotalRequests of a later result is never less than that of an earlier
   one. *)
C32_ListOnlyGrows ==
    /\ [][/\ IsPrefix(allRequests, allRequests')
          /\ callers' # callers =>
               /\ allRequests' = allRequests
               /\ callers'[1].local = allRequests
               /\ callers # <<>> =>
                    callers[1].snapshot[1].TotalRequests
                      <= callers'[1].snapshot[1].TotalRequests]_vars
    /\ [](callers # <<>> =>
            /\ IsPrefix(callers[1].local, allRequests)
            /\ callers[1].snapshot[1].TotalRequests
                 <= GetResults(allRequests).TotalRequests
            /\ (callers[1].local = allRequests =>
                  GetResults(allRequests) = callers[1].snapshot[1]))

\* a result was taken after the first record, and two more records have been
\* ingested since
C32_Witness ==
    /\ callers # <<>>
    /\ Len(callers[1].local) = 1
    /\ callers[1].snapshot[1].TotalRequests = 1
    /\ Len(allRequests) = 3
    /\ GetResults(allRequests).TotalRequests = 3


\* the record lists that hold the records of all, each as often, in any order
Reorderings(all) == {[i \in DOMAIN all |-> all[p[i]]] : p \in Perms(DOMAIN all)}

(* C33: the result depends only on the multiset of ingested records, not on
   the order they arrived in: GetResults of any reordering of the record list
   has the same counts, the same minimum, maximum, total and average duration
   and the same two histograms. *)
C33_OrderIndependent ==
    \A other \in Reorderings(allRequests) :
        GetResults(other) = GetResults(allRequests)

\* three different records: the fastest one, a failed one, arrived last
C33_Witness ==
    /\ Len(allRequests) = 3
    /\ Cardinality(Reorderings(allRequests)) = 6
    /\ allRequests[1].Duration = MaxDuration
    /\ allRequests[2].Duration = 1
    /\ allRequests[3].Duration = 0
    /\ allRequests[3].ErrorMsg = "timeout"
    /\ GetResults(allRequests).MinDuration = 0
    /\ GetResults(allRequests).MaxDuration = MaxDuration


\* the weights of the choice definition evaluated, <<>> when it has none
EvalWeights ==
    IF "weights" \in DOMAIN evalDef THEN evalDef.weights.items ELSE <<>>

\* the choice definition evaluated draws by weight, and its weights sum to more
\* than zero
WeightedChoiceDef ==
    /\ DefType("choice")
    /\ "values" \in DOMAIN evalDef
    /\ evalDef.values # <<>>
    /\ Len(EvalWeights) = Len(evalDef.values)
    /\ SumSeq(EvalWeights, Len(EvalWeights)) > 0

(* C34: a weighted draw never returns an item of zero weight when the total
   weight is positive: every value a weighted choice returns is a value whose
   weight is positive. *)
C34_PositiveWeightOnly ==
    WeightedChoiceDef =>
        \A i \in DOMAIN genOuts :
            genOuts[i].out = "value" =>
                \E k \in DOMAIN evalDef.values :
                    /\ evalDef.values[k] = genOuts[i].val
                    /\ EvalWeights[k] > 0

\* every value a weighted choice returns has a positive weight, or is the first
\* value and the values up to it have weight zero (the draw was 0)
C34_ExceptDrawZero ==
    WeightedChoiceDef =>
        \A i \in DOMAIN genOuts :
            genOuts[i].out = "value" =>
                \E k \in DOMAIN evalDef.values :
                    /\ evalDef.values[k] = genOuts[i].val
                    /\ \/ EvalWeights[k] > 0
                       \/ SumSeq(EvalWeights, k) = 0

\* a weighted selection, made by the cumulative walk, picks an endpoint that has
\* a positive weight
C34_EndpointPositiveWeight ==
    [][(/\ picked' # picked
        /\ cfg.Strategy = "weighted"
        /\ ConfiguredWeight > 0
        /\ endpointIdx' = endpointIdx)
       => LET name == picked'[Len(picked')] IN
          name \in DOMAIN cfg.Weights /\ cfg.Weights[name] > 0]_vars


\* format with its "{}" token replaced by the decimal form of v, every other
\* token copied
BracesReplaced(format, v) ==
    JoinTokens([j \in DOMAIN format |->
                   IF format[j] = "{}" THEN ToString(v) ELSE format[j]], 1)

\* the definition evaluated is a formattedInt with a format string
FormattedIntDef ==
    /\ DefType("formattedInt")
    /\ DOMAIN evalDef = {"type", "min", "max", "format"}
    /\ evalDef.format # <<>>

(* C35: formattedInt(min, max, format) evaluates to format with its {} token
   replaced by the decimal form of an integer drawn as for randomInt (min when
   min >= max, else a value in [min, max]) and every other character copied
   unchanged, for every format string, those that hold '%' or no {} token
   included (the read of the random source may fail). *)
C35_FormattedInt ==
    FormattedIntDef =>
        \A i \in DOMAIN genOuts :
            LET o == genOuts[i] IN
            \/ /\ evalDef.min < evalDef.max
               /\ o = GenerationError("failed to generate random int: rand.Reader")
            \/ /\ o.out = "value"
               /\ \E v \in evalDef.min..evalDef.max :
                     /\ evalDef.min >= evalDef.max => v = evalDef.min
                     /\ o.val = StrV(BracesReplaced(evalDef.format, v))

\* the same, for the formats that consist of one {} token and text without '%'
C35_PlainFormats ==
    (/\ FormattedIntDef
     /\ Cardinality({j \in DOMAIN evalDef.format : evalDef.format[j] = "{}"}) = 1
     /\ \A j \in DOMAIN evalDef.format : evalDef.format[j] \notin {"%d", "%s", "%%"})
    => C35_FormattedInt


(* C36: the request counter that a fixed-mode Run logs as "Total requests
   attempted" when it returns equals the number of request goroutines spawned
   in that run, in every interleaving of the goroutines. *)
C36_RequestCountExact ==
    (pc = "returned" /\ err = "nil") => requestCount = spawned

\* the counter logged is at least one when a goroutine was spawned, and never
\* more than the number spawned
C36_RequestCountBounds ==
    (pc = "returned" /\ err = "nil") =>
        /\ requestCount <= spawned
        /\ spawned > 0 => requestCount >= 1


(* C37: evaluating a generator never modifies the generator, the definition it
   was built from or the named-generator registry: after any number of
   Generate calls on a generator registered in the engine, an array with
   minLength > maxLength included, every field of the generator has the value
   it had before the call, and so do the definition and the registry. *)
C37_GenerateReadOnly ==
    [][/\ (engine.generators # <<>> /\ engine'.outs # engine.outs)
            => engine'.generators = engine.generators
       /\ evalDef' = evalDef
       /\ cfg'.ParameterGenerators = cfg.ParameterGenerators]_vars

\* a Generate call leaves the generator as it was, unless the generator is an
\* array with MinLength > MaxLength
C37_ExceptArrayBounds ==
    [][(/\ engine.generators # <<>>
        /\ engine'.outs # engine.outs
        /\ ~(/\ engine.generators[1].g = "Array"
             /\ engine.generators[1].MinLength > engine.generators[1].MaxLength))
       => engine'.generators = engine.generators]_vars


\* the run state the goroutine that called Run is in: Idle (0), Running (1),
\* Draining (2), Done (3)
RunState(at) ==
    CASE at = "idle" -> 0
      [] at \in {"loop", "select", "tick"} -> 1
      [] at \in {"wait", "close", "collectorWait"} -> 2
      [] at = "returned" -> 3

\* the run states follow each other in their order within an invocation (a Run
\* that fails its checks goes from Idle to Done), and the next invocation
\* starts from Idle
RunStatesInOrder ==
    [][\/ RunState(pc') = RunState(pc)
       \/ RunState(pc') = RunState(pc) + 1
       \/ pc = "idle" /\ pc' = "returned" /\ err' # "nil"
       \/ pc = "returned" /\ pc' = "idle" /\ reruns' = reruns + 1]_vars

\* no goroutine has sent on, or closed, the closed result channel
NoUseOfClosedChannel ==
    panic \notin {"send on closed channel", "close of closed channel"}

(* C38: for any sequence of Run invocations on one Runner, whose result
   channel NewRunner creates once, each invocation visits the run states in
   the order Idle, Running, Draining, Done, and no invocation sends on, or
   closes, a result channel that an earlier invocation has closed. *)
C38_RepeatedRuns == RunStatesInOrder /\ []NoUseOfClosedChannel

\* the first invocation visits the run states in order and neither sends on
\* nor closes a closed channel
C38_FirstRun == RunStatesInOrder /\ [](reruns = 0 => NoUseOfClosedChannel)


\* the definition a named generator has when written inline: the YAML node
\* decoded into "any", its weights a []interface{} and its parameters and
\* properties a map[interface{}]interface{}
InlineForm(genDef) ==
    [k \in DOMAIN genDef |->
        IF k = "weights" THEN YamlList(genDef[k])
        ELSE IF k \in {"parameters", "properties"} THEN YamlMap(genDef[k])
        ELSE genDef[k]]

\* the definition evaluated is a $ref to a generator of the registry
NamedRef == "ref" \in DOMAIN evalDef /\ evalDef.ref \in DOMAIN Registry

\* the values the evaluations of a definition can return
ValuesOf(def) ==
    Values(GenerateParameter(cfg, def, "failed to get body parameter generator",
                             "failed to generate body"))

(* C39: a generator registered under parameterGenerators and reached through
   $ref behaves as the identical definition written inline: the values it can
   return are those of the inline definition, so a named choice draws with its
   weights, a named template substitutes its parameters and a named object has
   its properties. *)
C39_NamedAsInline ==
    (NamedRef /\ cfg.ParameterGenerators = GenRegistry /\ genOuts # <<>>) =>
        /\ ValuesOf(evalDef) = ValuesOf(InlineForm(Registry[evalDef.ref]))
        /\ \A i \in DOMAIN genOuts :
              genOuts[i].out = "value" =>
                  genOuts[i].val \in ValuesOf(InlineForm(Registry[evalDef.ref]))

\* the same, for the named generators that have no weights, parameters or
\* properties
C39_PlainNamed ==
    (/\ NamedRef
     /\ cfg.ParameterGenerators = GenRegistry
     /\ DOMAIN Registry[evalDef.ref] \cap {"weights", "parameters", "properties"} = {})
    => C39_NamedAsInline

=============================================================================
